---- MODULE Spec2Model ----
(***************************************************************************)
(* A model of the accrual / reconciliation core of RENTYFI                 *)
(* (server/storage.ts, server/routes.ts, shared/schema.ts).                *)
(*                                                                         *)
(* Money is counted in whole units (the code re-quantizes every result     *)
(* with toFixed(2); the model's amounts are whole, so toFixed is exact).   *)
(* Dates are calendar days [y, m, d]. The clock is read in the server's    *)
(* own time zone. A date parsed from a 'YYYY-MM-DD' string (dateOnly) is   *)
(* the UTC midnight of that day; the code reads its year, month and day    *)
(* with the local getters, which give the day before when the server's     *)
(* zone is behind UTC.                                                     *)
(* A missing id (SQL NULL, JS null/0) is NULL; a property that is absent   *)
(* from a request body is Undefined.                                       *)
(***************************************************************************)
EXTENDS Integers, FiniteSets, Sequences, TLC

VARIABLES
    now,            \* the clock: new Date()
    shops,          \* table shops: id -> row
    nextShopId,     \* serial sequence of shops.id
    rentPayments,   \* table rent_payments: a set of rows, each with its id
    nextRentId,     \* serial sequence of rent_payments.id
    last,           \* history: the operation that produced this state
    accounts,       \* table bank_accounts: id -> row
    nextAccId,      \* serial sequence of bank_accounts.id
    transactions,   \* table transactions: a set of rows
    nextTxId,       \* serial sequence of transactions.id
    transfers,      \* table transfers: a set of rows
    nextTrId,       \* serial sequence of transfers.id
    tracked,        \* history: the transfer followed from its creation to its deletion
    shadow,         \* history: id -> the balance had the tracked transfer never been created
    tzWest,         \* the server's time zone is behind UTC (process.env.TZ)
    buildings,      \* table buildings: a set of rows
    nextBuildingId, \* serial sequence of buildings.id
    flight,         \* the request being served statement by statement, if any
    applied,        \* history: the balance movements in force, one per account and row
    payment,        \* history: the rent payment followed from its recording to its reversal
    tenants         \* table tenants: the ids of its rows

vars == <<now, shops, nextShopId, rentPayments, nextRentId, last,
          accounts, nextAccId, transactions, nextTxId, transfers, nextTrId,
          tracked, shadow, tzWest, buildings, nextBuildingId, flight, applied, payment,
          tenants>>

rentVars == <<now, shops, nextShopId, rentPayments, nextRentId>>
balVars == <<accounts, nextAccId, transactions, nextTxId, transfers, nextTrId, tracked, shadow>>
extVars == <<tzWest, buildings, nextBuildingId, flight, applied, payment, tenants>>

----------------------------------------------------------------------------
(* Bounds of the model *)

MaxShops == 1
MaxRentRows == 2
MaxTicks == 1
MaxPay == 1
MaxPaid == 2
MaxAccounts == 2
MaxTxRows == 2
MaxTrRows == 2
MaxAmount == 2
MaxBalance == 4
MaxBuildings == 1

(* Values of the code *)

NULL == 0
Undefined == -1
MonthsPerYear == 12

Users == {1}
Tenants == {1}
Rents == {1, 2}

NoDate == [y |-> 0, m |-> 0, d |-> 0, dateOnly |-> FALSE]
ClockStart == [y |-> 2023, m |-> 12, d |-> 15, dateOnly |-> FALSE]
AllocDates == { [y |-> 2023, m |-> 11, d |-> 20, dateOnly |-> TRUE],
                [y |-> 2024, m |-> 1, d |-> 1, dateOnly |-> TRUE] }

Max(a, b) == IF a >= b THEN a ELSE b

DaysIn(y, m) ==
    IF m = 2 THEN (IF y % 4 = 0 THEN 29 ELSE 28)
    ELSE IF m \in {4, 6, 9, 11} THEN 30 ELSE 31

PrevDay(t) ==
    IF t.d > 1 THEN [t EXCEPT !.d = t.d - 1]
    ELSE IF t.m = 1
         THEN [t EXCEPT !.y = t.y - 1, !.m = MonthsPerYear, !.d = DaysIn(t.y - 1, MonthsPerYear)]
         ELSE [t EXCEPT !.m = t.m - 1, !.d = DaysIn(t.y, t.m - 1)]

(* getFullYear(), getMonth(), getDate(): the calendar day of t in the server's zone. *)
Local(t) == IF tzWest /\ t.dateOnly THEN PrevDay(t) ELSE t

DateLE(a, b) ==
    \/ a.y < b.y
    \/ a.y = b.y /\ a.m < b.m
    \/ a.y = b.y /\ a.m = b.m /\ a.d <= b.d

----------------------------------------------------------------------------
(* Ledger primitives *)

Pending(amount, paid) == Max(amount - paid, 0)

StatusOf(pending) == IF pending = 0 THEN "paid" ELSE "pending"

----------------------------------------------------------------------------
(* Rent Accrual Generator *)

(* The rows of rent_payments for one (user, tenant, shop, month, year). *)
ExistingRent(rp, u, t, s, m, y) ==
    { r \in rp : r.userId = u /\ r.tenantId = t /\ r.shopId = s
                 /\ r.month = m /\ r.year = y }

(* The row the generator inserts for a period that has none. *)
AccruedRow(id, u, t, s, m, y, rent) ==
    [ id |-> id, userId |-> u, tenantId |-> t, shopId |-> s,
      month |-> m, year |-> y, amount |-> rent,
      paidAmount |-> 0, pendingAmount |-> rent, status |-> "pending" ]

(* A faulty loop body: the insert without the existence check before it. *)
InsertAlways(st, u, t, s, m, y, rent) ==
    [ rp |-> st.rp \cup { AccruedRow(st.nid, u, t, s, m, y, rent) },
      nid |-> st.nid + 1 ]

(* One pass of the loop body: insert the period's row unless one exists. *)
InsertIfMissing(st, u, t, s, m, y, rent) ==
    IF ExistingRent(st.rp, u, t, s, m, y) = {}
    THEN [ rp |-> st.rp \cup { AccruedRow(st.nid, u, t, s, m, y, rent) },
           nid |-> st.nid + 1 ]
    ELSE st

(* The last period to generate: the calendar month before now's month. *)
LastPeriod(n) ==
    IF n.m - 1 = 0 THEN [y |-> n.y - 1, m |-> MonthsPerYear]
                   ELSE [y |-> n.y, m |-> n.m - 1]

(* createShop's own computation of the last period, with its two branches. *)
LastPeriodCreateShop(n) ==
    IF n.d = 1
    THEN IF n.m - 1 = 0 THEN [y |-> n.y - 1, m |-> MonthsPerYear]
                        ELSE [y |-> n.y, m |-> n.m - 1]
    ELSE IF n.m - 1 = 0 THEN [y |-> n.y - 1, m |-> MonthsPerYear]
                        ELSE [y |-> n.y, m |-> n.m - 1]

(* while (y < lastYear || (y === lastYear && m <= lastMonth)) { ...; m++ } *)
RECURSIVE AccrueLoop(_, _, _, _, _, _, _, _)
AccrueLoop(st, u, t, s, rent, y, m, lastP) ==
    IF y < lastP.y \/ (y = lastP.y /\ m <= lastP.m)
    THEN LET st1 == InsertIfMissing(st, u, t, s, m, y, rent)
         IN IF m + 1 > MonthsPerYear
            THEN AccrueLoop(st1, u, t, s, rent, y + 1, 1, lastP)
            ELSE AccrueLoop(st1, u, t, s, rent, y, m + 1, lastP)
    ELSE st

(* The condition under which a shop accrues rent at all. *)
Allocated(shop, n) ==
    /\ shop.tenantId # NULL
    /\ shop.allocated_at # NoDate
    /\ DateLE(Local(shop.allocated_at), n)

(* The accrual of one shop from its allocation month to lastP. *)
AccrueShop(st, sid, shop, lastP) ==
    AccrueLoop(st, shop.userId, shop.tenantId, sid, shop.monthlyRent,
               Local(shop.allocated_at).y, Local(shop.allocated_at).m, lastP)

(* updateShop's step 1: the rows of (user, tenant, shop) before the allocation month. *)
BeforeAllocation(rp, sid, shop) ==
    { r \in rp : /\ r.userId = shop.userId
                 /\ r.tenantId = shop.tenantId
                 /\ r.shopId = sid
                 /\ \/ r.year < Local(shop.allocated_at).y
                    \/ /\ r.year = Local(shop.allocated_at).y
                       /\ r.month < Local(shop.allocated_at).m }

(* The sweep over all shops, in id order. *)
RECURSIVE SweepFrom(_, _, _, _)
SweepFrom(st, sid, shs, n) ==
    IF sid \notin DOMAIN shs THEN st
    ELSE SweepFrom(IF Allocated(shs[sid], n)
                   THEN AccrueShop(st, sid, shs[sid], LastPeriod(n))
                   ELSE st,
                   sid + 1, shs, n)

----------------------------------------------------------------------------
(* The clock *)

TickCount(n) ==
    2 * ((n.y - ClockStart.y) * MonthsPerYear + (n.m - ClockStart.m))
      - (IF n.d = 1 THEN 1 ELSE 0)

NextDay(n) ==
    IF n.d = 1 THEN [n EXCEPT !.d = ClockStart.d]
    ELSE IF n.m + 1 > MonthsPerYear THEN [n EXCEPT !.y = n.y + 1, !.m = 1, !.d = 1]
         ELSE [n EXCEPT !.m = n.m + 1, !.d = 1]

Did(op, rid, amt, was) == [op |-> op, rid |-> rid, amt |-> amt, was |-> was]

Tick ==
    /\ TickCount(now) < MaxTicks
    /\ now' = NextDay(now)
    /\ last' = Did("tick", NULL, 0, 0)
    /\ UNCHANGED <<shops, nextShopId, rentPayments, nextRentId>>
    /\ UNCHANGED balVars
    /\ UNCHANGED extVars

----------------------------------------------------------------------------
(* Shops *)

(* createShop: the row inserted for the request (tenantId, allocated_at, monthlyRent). *)
NewShop(u, b, t, a, rent, n) ==
    LET allocationDate == IF t # NULL /\ a = NoDate THEN n ELSE a
    IN [ userId |-> u,
         buildingId |-> b,
         tenantId |-> t,
         allocated_at |-> IF t # NULL THEN allocationDate ELSE NoDate,
         monthlyRent |-> rent,
         isOccupied |-> IF t # NULL THEN DateLE(Local(allocationDate), n) ELSE FALSE ]

(* createBuilding *)
CreateBuilding(u) ==
    /\ nextBuildingId <= MaxBuildings
    /\ buildings' = buildings \cup { [id |-> nextBuildingId, userId |-> u] }
    /\ nextBuildingId' = nextBuildingId + 1
    /\ last' = Did("createBuilding", nextBuildingId, 0, 0)
    /\ UNCHANGED rentVars
    /\ UNCHANGED balVars
    /\ UNCHANGED <<tenants, tzWest, flight, applied, payment>>

CreateShop(u, b, t, a, rent) ==
    /\ nextShopId <= MaxShops
    /\ \E bl \in buildings : bl.id = b
    /\ t = NULL \/ t \in tenants
    /\ LET shop == NewShop(u, b, t, a, rent, now)
           st0 == [rp |-> rentPayments, nid |-> nextRentId]
           st == IF Allocated(shop, now)
                 THEN AccrueShop(st0, nextShopId, shop, LastPeriodCreateShop(now))
                 ELSE st0
       IN /\ st.nid <= MaxRentRows + 1
          /\ shops' = [i \in DOMAIN shops \cup {nextShopId} |->
                          IF i = nextShopId THEN shop ELSE shops[i]]
          /\ nextShopId' = nextShopId + 1
          /\ rentPayments' = st.rp
          /\ nextRentId' = st.nid
          /\ last' = Did("createShop", nextShopId, 0, 0)
    /\ UNCHANGED now
    /\ UNCHANGED balVars
    /\ UNCHANGED extVars

(* updateShop: the row after .set(updates); an absent property leaves its column alone. *)
UpdatedShop(shop, upd, n) ==
    LET dealloc == upd.tenantId = NULL \/ upd.tenantId = Undefined
        a1 == IF ~dealloc /\ upd.allocated_at = NoDate THEN n ELSE upd.allocated_at
    IN [ shop EXCEPT
           !.tenantId = IF upd.tenantId = Undefined THEN @ ELSE upd.tenantId,
           !.allocated_at = IF dealloc THEN NoDate ELSE a1,
           !.isOccupied = IF dealloc THEN FALSE ELSE DateLE(Local(a1), n),
           !.monthlyRent = IF upd.monthlyRent = Undefined THEN @ ELSE upd.monthlyRent ]

ShopUpdates ==
    [ tenantId : Tenants \cup {NULL, Undefined},
      allocated_at : AllocDates \cup {NoDate},
      monthlyRent : Rents \cup {Undefined} ]

UpdateShop(id, u, upd) ==
    /\ id \in DOMAIN shops
    /\ shops[id].userId = u
    /\ upd.tenantId \in {NULL, Undefined} \/ upd.tenantId \in tenants
    /\ LET shop == UpdatedShop(shops[id], upd, now)
           st0 == [rp |-> rentPayments, nid |-> nextRentId]
           st == IF Allocated(shop, now)
                 THEN AccrueShop([st0 EXCEPT !.rp = @ \ BeforeAllocation(@, id, shop)],
                                 id, shop, LastPeriod(now))
                 ELSE st0
       IN /\ st.nid <= MaxRentRows + 1
          /\ shops' = [shops EXCEPT ![id] = shop]
          /\ rentPayments' = st.rp
          /\ nextRentId' = st.nid
          /\ last' = Did("updateShop", id, 0, 0)
    /\ UNCHANGED <<now, nextShopId>>
    /\ UNCHANGED balVars
    /\ UNCHANGED extVars

(* deleteTenant: the tenant's rent payments go, its shops are deallocated, its
   transactions lose their tenantId, and the tenant row is deleted. *)
DeleteTenant(t, u) ==
    /\ t \in tenants
    /\ rentPayments' = { r \in rentPayments : r.tenantId # t }
    /\ shops' = [ i \in DOMAIN shops |->
                    IF shops[i].tenantId = t
                    THEN [shops[i] EXCEPT !.tenantId = NULL, !.isOccupied = FALSE,
                                          !.allocated_at = NoDate]
                    ELSE shops[i] ]
    /\ transactions' = { IF tx.tenantId = t THEN [tx EXCEPT !.tenantId = NULL] ELSE tx
                         : tx \in transactions }
    /\ tenants' = tenants \ {t}
    /\ last' = Did("deleteTenant", t, 0, 0)
    /\ UNCHANGED <<now, nextShopId, nextRentId>>
    /\ UNCHANGED <<accounts, nextAccId, nextTxId, transfers, nextTrId, tracked, shadow>>
    /\ UNCHANGED <<tzWest, buildings, nextBuildingId, flight, applied, payment>>

(* createMissingRentPaymentsForAllocatedShops *)
Sweep ==
    /\ LET st == SweepFrom([rp |-> rentPayments, nid |-> nextRentId], 1, shops, now)
       IN /\ st.nid <= MaxRentRows + 1
          /\ rentPayments' = st.rp
          /\ nextRentId' = st.nid
    /\ last' = Did("sweep", NULL, 0, 0)
    /\ UNCHANGED <<now, shops, nextShopId>>
    /\ UNCHANGED balVars
    /\ UNCHANGED extVars

----------------------------------------------------------------------------
(* Rent Payment Reconciler *)

Periods == { <<2023, 11>>, <<2023, 12>> }

EmptyString == -2

(* routes.ts: req.body.x?.toString?.() ?? "" *)
BodyField(x) == IF x = Undefined THEN EmptyString ELSE x

(* JS Number(): Number("") is 0. *)
Number(x) == IF x = EmptyString THEN 0 ELSE x

(* The request bodies of POST /api/rent-payments and /api/rent-payments/upsert,
   as AddRentPaymentModal.handleSubmit builds them: pendingAmount and status are
   computed from the amount and the paid amount it sends. *)
RentBody(t, s, per, amount, paid) ==
    LET pending == Pending(Number(BodyField(amount)), paid)
    IN [ tenantId |-> t, shopId |-> s, period |-> per,
         amount |-> amount, paidAmount |-> paid,
         pendingAmount |-> pending, status |-> StatusOf(pending) ]

RentBodies ==
    { RentBody(t, s, per, amount, paid) :
        t \in Tenants, s \in 1..MaxShops, per \in Periods,
        amount \in Rents \cup {Undefined}, paid \in 0..MaxPay }

RentRow(id, u, b, amount, paid, pending, status) ==
    [ id |-> id, userId |-> u, tenantId |-> b.tenantId, shopId |-> b.shopId,
      month |-> b.period[2], year |-> b.period[1], amount |-> amount,
      paidAmount |-> paid, pendingAmount |-> pending, status |-> status ]

(* createRentPayment: the row is inserted as given; status defaults to "pending". *)
CreateRentPayment(u, b) ==
    /\ nextRentId <= MaxRentRows
    /\ b.shopId \in DOMAIN shops
    /\ b.tenantId \in tenants
    /\ BodyField(b.amount) # EmptyString
    /\ rentPayments' = rentPayments \cup
          { RentRow(nextRentId, u, b, b.amount, b.paidAmount, b.pendingAmount,
                    IF b.status = "undefined" THEN "pending" ELSE b.status) }
    /\ nextRentId' = nextRentId + 1
    /\ last' = Did("createRentPayment", nextRentId, 0, 0)
    /\ UNCHANGED <<now, shops, nextShopId>>
    /\ UNCHANGED balVars
    /\ UNCHANGED extVars

(* upsertRentPayment, existing branch: the amount pending is computed against. *)
UpsertAmount(dataAmount, prevAmount) ==
    Number(IF dataAmount # Undefined THEN dataAmount ELSE prevAmount)

(* A faulty existing branch: one that also writes the caller's amount to the row. *)
UpsertExistingWritingAmount(prev, dataAmount, dataPaid) ==
    LET newPaid == prev.paidAmount + Number(dataPaid)
        amount == UpsertAmount(dataAmount, prev.amount)
        pending == Pending(amount, newPaid)
    IN [ prev EXCEPT !.amount = amount,
                     !.paidAmount = newPaid,
                     !.pendingAmount = pending,
                     !.status = StatusOf(pending) ]

(* upsertRentPayment, existing branch: the row written over prev. *)
UpsertExisting(prev, dataAmount, dataPaid) ==
    LET newPaid == prev.paidAmount + Number(dataPaid)
        pending == Pending(UpsertAmount(dataAmount, prev.amount), newPaid)
    IN [ prev EXCEPT !.paidAmount = newPaid,
                     !.pendingAmount = pending,
                     !.status = StatusOf(pending) ]

(* upsertRentPayment, insert branch: paid, pending and status are the caller's. *)
UpsertInserted(id, u, b) ==
    RentRow(id, u, b, b.amount, Number(b.paidAmount), Number(b.pendingAmount),
            IF b.status = "undefined" THEN StatusOf(Number(b.pendingAmount)) ELSE b.status)

(* POST /api/rent-payments/upsert *)
UpsertRentPayment(u, b) ==
    LET existing == ExistingRent(rentPayments, u, b.tenantId, b.shopId,
                                 b.period[2], b.period[1])
    IN /\ IF existing # {}
          THEN \E prev \in existing :
                 LET row == UpsertExisting(prev, BodyField(b.amount), BodyField(b.paidAmount))
                 IN /\ row.paidAmount <= MaxPaid
                    /\ rentPayments' = (rentPayments \ {prev}) \cup {row}
                    /\ nextRentId' = nextRentId
                    /\ last' = Did("upsert", prev.id, b.paidAmount, prev.paidAmount)
          ELSE /\ nextRentId <= MaxRentRows
               /\ b.shopId \in DOMAIN shops
               /\ b.tenantId \in tenants
               /\ BodyField(b.amount) # EmptyString
               /\ rentPayments' = rentPayments \cup {UpsertInserted(nextRentId, u, b)}
               /\ nextRentId' = nextRentId + 1
               /\ last' = Did("upsertInsert", nextRentId, 0, 0)
       /\ UNCHANGED <<now, shops, nextShopId>>
       /\ UNCHANGED balVars
       /\ UNCHANGED extVars

(* A faulty reversal: the subtraction without the clamp at zero. *)
ReversedPaidUnclamped(prevPaid, amt) == prevPaid - amt

(* updateRentPaymentAfterTransactionDelete: the paid amount after the reversal. *)
ReversedPaid(prevPaid, amt) == Max(prevPaid - amt, 0)

ReversedRow(rent, amt) ==
    LET newPaid == ReversedPaid(rent.paidAmount, amt)
        pending == Pending(rent.amount, newPaid)
    IN [ rent EXCEPT !.paidAmount = newPaid,
                     !.pendingAmount = pending,
                     !.status = StatusOf(pending) ]

(* The reversal DELETE /api/transactions/:id runs for a deleted rent transaction. *)
ReversePayment(u, t, s, per, amt) ==
    /\ \E rent \in ExistingRent(rentPayments, u, t, s, per[2], per[1]) :
         /\ rentPayments' = (rentPayments \ {rent}) \cup {ReversedRow(rent, amt)}
         /\ last' = Did("reverse", rent.id, amt, rent.paidAmount)
    /\ UNCHANGED <<now, shops, nextShopId, nextRentId>>
    /\ UNCHANGED balVars
    /\ UNCHANGED extVars

(* deleteRentPayment *)
DeleteRentPayment(id, u) ==
    /\ \E r \in rentPayments :
         /\ r.id = id /\ r.userId = u
         /\ rentPayments' = rentPayments \ {r}
    /\ last' = Did("deleteRentPayment", id, 0, 0)
    /\ UNCHANGED <<now, shops, nextShopId, nextRentId>>
    /\ UNCHANGED balVars
    /\ UNCHANGED extVars

(* recalculateAllPendingRents *)

KeyOf(r) == <<r.tenantId, r.shopId, r.month, r.year>>

RECURSIVE SumPaid(_)
SumPaid(rows) ==
    IF rows = {} THEN 0
    ELSE LET r == CHOOSE x \in rows : TRUE
         IN r.paidAmount + SumPaid(rows \ {r})

(* firsts holds, for each group, the row the select returned first. *)
Recalculated(rows, firsts) ==
    { LET group == { q \in rows : KeyOf(q) = KeyOf(p) }
          first == CHOOSE f \in firsts : KeyOf(f) = KeyOf(p)
          pending == Pending(first.amount, SumPaid(group))
      IN [ p EXCEPT !.pendingAmount = pending, !.status = StatusOf(pending) ]
      : p \in rows }

RecalculateAllPendingRents(u) ==
    /\ LET rows == { r \in rentPayments : r.userId = u }
       IN \E firsts \in SUBSET rows :
            /\ \A r \in rows : Cardinality({ f \in firsts : KeyOf(f) = KeyOf(r) }) = 1
            /\ rentPayments' = (rentPayments \ rows) \cup Recalculated(rows, firsts)
    /\ last' = Did("recalculate", NULL, 0, 0)
    /\ UNCHANGED <<now, shops, nextShopId, nextRentId>>
    /\ UNCHANGED balVars
    /\ UNCHANGED extVars

----------------------------------------------------------------------------
(* The rent ledger's specification *)

InitBalEmpty ==
    /\ accounts = <<>>
    /\ nextAccId = 1
    /\ transactions = {}
    /\ nextTxId = 1
    /\ transfers = {}
    /\ nextTrId = 1
    /\ tracked = [id |-> NULL, phase |-> "none", between |-> FALSE,
                  from |-> NULL, to |-> NULL]
    /\ shadow = <<>>

Idle == [op |-> "idle"]
NoPayment == [phase |-> "none"]

InitExt ==
    /\ buildings = {}
    /\ nextBuildingId = 1
    /\ flight = Idle
    /\ applied = {}
    /\ payment = NoPayment
    /\ tenants = Tenants

Init ==
    /\ tzWest = FALSE
    /\ InitExt
    /\ now = ClockStart
    /\ shops = <<>>
    /\ nextShopId = 1
    /\ rentPayments = {}
    /\ nextRentId = 1
    /\ last = Did("init", NULL, 0, 0)
    /\ InitBalEmpty

Next ==
    \/ Tick
    \/ \E u \in Users : CreateBuilding(u)
    \/ \E u \in Users, b \in 1..MaxBuildings, t \in Tenants \cup {NULL},
          a \in AllocDates \cup {NoDate}, rent \in Rents :
         CreateShop(u, b, t, a, rent)
    \/ \E id \in 1..MaxShops, u \in Users, upd \in ShopUpdates : UpdateShop(id, u, upd)
    \/ Sweep
    \/ \E u \in Users, b \in RentBodies : CreateRentPayment(u, b)
    \/ \E u \in Users, b \in RentBodies : UpsertRentPayment(u, b)
    \/ \E u \in Users, t \in Tenants, s \in 1..MaxShops, per \in Periods, amt \in 1..MaxPaid :
         ReversePayment(u, t, s, per, amt)
    \/ \E id \in 1..MaxRentRows, u \in Users : DeleteRentPayment(id, u)
    \/ \E u \in Users : RecalculateAllPendingRents(u)

Spec == Init /\ [][Next]_vars

----------------------------------------------------------------------------
(* Balance Mutator *)

Amounts == 1..MaxAmount
InitialBalances == {0, MaxAmount}

(* createBankAccount: currentBalance is set to initialBalance. *)
NewAccount(u, initial) ==
    [ userId |-> u, initialBalance |-> initial, currentBalance |-> initial ]

(* createTransaction: the balance after the transaction is applied. *)
AppliedBalance(balance, type, amount) ==
    IF type = "income" THEN balance + amount ELSE balance - amount

(* deleteTransaction: the balance after the transaction's effect is reversed. *)
RevertedBalance(balance, type, amount) ==
    IF type = "income" THEN balance - amount
    ELSE IF type = "expense" THEN balance + amount
    ELSE balance

(* createTransfer: the two updates, in the code's order, from the rows read before them. *)
TransferredAccounts(accts, from, to, amount) ==
    LET a1 == [accts EXCEPT ![from].currentBalance = accts[from].currentBalance - amount]
    IN [a1 EXCEPT ![to].currentBalance = accts[to].currentBalance + amount]

(* A faulty deleteTransfer: one that gives the amount back to the source account
   and leaves the destination account as it is. *)
RevertedAccountsOneSided(accts, from, to, amount) ==
    [accts EXCEPT ![from].currentBalance = accts[from].currentBalance + amount]

(* deleteTransfer: the two updates, in the code's order, from the rows read before them. *)
RevertedAccounts(accts, from, to, amount) ==
    LET a1 == [accts EXCEPT ![from].currentBalance = accts[from].currentBalance + amount]
    IN [a1 EXCEPT ![to].currentBalance = accts[to].currentBalance - amount]

InBalanceRange(accts) ==
    \A a \in DOMAIN accts :
        accts[a].currentBalance <= MaxBalance /\ accts[a].currentBalance >= -MaxBalance

(* History: the balances as they would be without the tracked transfer, moved by
   every other operation exactly as that operation moves the stored balance. *)
ShadowAfter(accts1) ==
    [ a \in DOMAIN accts1 |->
        IF a \in DOMAIN accounts
        THEN shadow[a] + (accts1[a].currentBalance - accounts[a].currentBalance)
        ELSE accts1[a].currentBalance ]

Touches(a) == tracked.from = a \/ tracked.to = a

Between(a, b) ==
    IF tracked.phase = "live" /\ (Touches(a) \/ Touches(b))
    THEN [tracked EXCEPT !.between = TRUE] ELSE tracked

CreateBankAccount(u, initial) ==
    /\ nextAccId <= MaxAccounts
    /\ accounts' = [i \in DOMAIN accounts \cup {nextAccId} |->
                       IF i = nextAccId THEN NewAccount(u, initial) ELSE accounts[i]]
    /\ nextAccId' = nextAccId + 1
    /\ shadow' = ShadowAfter(accounts')
    /\ UNCHANGED <<transactions, nextTxId, transfers, nextTrId, tracked, applied>>
    /\ UNCHANGED <<rentVars, last>>
    /\ UNCHANGED <<tenants, tzWest, buildings, nextBuildingId, flight, payment>>

(* The columns of a transaction that refer to the property side. *)
NoRef == [context |-> "personal", tenantId |-> NULL, shopId |-> NULL, buildingId |-> NULL]

TransactionRow(id, u, accountId, type, amount, ref, date) ==
    [ id |-> id, userId |-> u, accountId |-> accountId, type |-> type, amount |-> amount,
      context |-> ref.context, tenantId |-> ref.tenantId, shopId |-> ref.shopId,
      buildingId |-> ref.buildingId, transactionDate |-> date ]

CreateTransaction(u, accountId, type, amount, ref) ==
    /\ nextTxId <= MaxTxRows
    /\ accountId \in DOMAIN accounts
    /\ type \in {"income", "expense"}
    /\ accounts' = [accounts EXCEPT ![accountId].currentBalance =
                        AppliedBalance(@, type, amount)]
    /\ InBalanceRange(accounts')
    /\ transactions' = transactions \cup
          { TransactionRow(nextTxId, u, accountId, type, amount, ref, now) }
    /\ nextTxId' = nextTxId + 1
    /\ applied' = applied \cup { <<"transaction", nextTxId, accountId>> }
    /\ shadow' = ShadowAfter(accounts')
    /\ tracked' = Between(accountId, accountId)
    /\ UNCHANGED <<nextAccId, transfers, nextTrId>>
    /\ UNCHANGED <<rentVars, last>>
    /\ UNCHANGED <<tenants, tzWest, buildings, nextBuildingId, flight, payment>>

(* DELETE /api/transactions/:id: the condition under which the rent ledger is updated. *)
IsRentTransaction(tx) ==
    /\ tx.type = "income"
    /\ tx.context = "property"
    /\ tx.tenantId # NULL
    /\ tx.shopId # NULL
    /\ tx.transactionDate # NoDate

(* The records the reversal looks up: those of the month and year of transactionDate. *)
ReversalTargets(tx) ==
    ExistingRent(rentPayments, tx.userId, tx.tenantId, tx.shopId,
                 Local(tx.transactionDate).m, Local(tx.transactionDate).y)

(* History: the followed payment after a write to record rid on behalf of transaction txId. *)
PaymentAfter(txId, rid) ==
    IF payment.phase = "recorded" /\ payment.txId = txId
    THEN [payment EXCEPT !.phase = "reversed"]
    ELSE IF payment.phase = "recorded" /\ payment.rid = rid
         THEN [payment EXCEPT !.touched = TRUE]
         ELSE payment

(* DELETE /api/transactions/:id: deleteTransaction, then the reversal on the rent ledger. *)
DeleteTransaction(id) ==
    /\ \E tx \in transactions :
         /\ tx.id = id
         /\ tx.accountId # NULL
         /\ tx.accountId \in DOMAIN accounts
         /\ accounts' = [accounts EXCEPT ![tx.accountId].currentBalance =
                             RevertedBalance(@, tx.type, tx.amount)]
         /\ InBalanceRange(accounts')
         /\ transactions' = transactions \ {tx}
         /\ applied' = applied \ { <<"transaction", tx.id, tx.accountId>> }
         /\ tracked' = Between(tx.accountId, tx.accountId)
         /\ IF IsRentTransaction(tx) /\ ReversalTargets(tx) # {}
            THEN \E rent \in ReversalTargets(tx) :
                   /\ rentPayments' = (rentPayments \ {rent}) \cup {ReversedRow(rent, tx.amount)}
                   /\ payment' = PaymentAfter(tx.id, rent.id)
            ELSE /\ rentPayments' = rentPayments
                 /\ payment' = PaymentAfter(tx.id, NULL)
    /\ shadow' = ShadowAfter(accounts')
    /\ UNCHANGED <<nextAccId, nextTxId, transfers, nextTrId>>
    /\ UNCHANGED <<now, shops, nextShopId, nextRentId, last>>
    /\ UNCHANGED <<tenants, tzWest, buildings, nextBuildingId, flight>>

(* AddRentPaymentModal: the checks of handleSubmit on the list of payments it holds. *)
ModalAccepts(b) ==
    LET payments == { r \in rentPayments : r.tenantId = b.tenantId /\ r.shopId = b.shopId
                                           /\ r.month = b.period[2] /\ r.year = b.period[1] }
        periodAmount == IF payments # {}
                        THEN (CHOOSE r \in payments : TRUE).amount
                        ELSE b.amount
    IN /\ b.paidAmount > 0
       /\ ~(b.paidAmount + SumPaid(payments) > periodAmount)

(* AddRentPaymentModal's mutation: the upsert of the rent payment, then the income
   transaction for it, dated new Date(). *)
RecordRentPayment(u, b, accountId, track) ==
    LET existing == ExistingRent(rentPayments, u, b.tenantId, b.shopId,
                                 b.period[2], b.period[1])
        shop == shops[b.shopId]
        ref == [context |-> "property", tenantId |-> b.tenantId, shopId |-> b.shopId,
                buildingId |-> shop.buildingId]
    IN /\ b.shopId \in DOMAIN shops
       /\ b.tenantId \in tenants
       /\ b.amount = shop.monthlyRent
       /\ ModalAccepts(b)
       /\ accountId \in DOMAIN accounts
       /\ nextTxId <= MaxTxRows
       /\ IF existing # {}
          THEN \E prev \in existing :
                 /\ rentPayments' = (rentPayments \ {prev}) \cup
                       {UpsertExisting(prev, BodyField(b.amount), BodyField(b.paidAmount))}
                 /\ nextRentId' = nextRentId
                 /\ payment' = IF track
                               THEN [phase |-> "recorded", txId |-> nextTxId, rid |-> prev.id,
                                     before |-> prev, paidOn |-> now, touched |-> FALSE]
                               ELSE PaymentAfter(NULL, prev.id)
          ELSE /\ nextRentId <= MaxRentRows
               /\ ~track
               /\ rentPayments' = rentPayments \cup {UpsertInserted(nextRentId, u, b)}
               /\ nextRentId' = nextRentId + 1
               /\ payment' = payment
       /\ track => payment.phase = "none"
       /\ accounts' = [accounts EXCEPT ![accountId].currentBalance =
                           AppliedBalance(@, "income", b.paidAmount)]
       /\ InBalanceRange(accounts')
       /\ transactions' = transactions \cup
             { TransactionRow(nextTxId, u, accountId, "income", b.paidAmount, ref, now) }
       /\ nextTxId' = nextTxId + 1
       /\ applied' = applied \cup { <<"transaction", nextTxId, accountId>> }
       /\ shadow' = ShadowAfter(accounts')
       /\ tracked' = Between(accountId, accountId)
       /\ UNCHANGED <<now, shops, nextShopId, last>>
       /\ UNCHANGED <<nextAccId, transfers, nextTrId>>
       /\ UNCHANGED <<tenants, tzWest, buildings, nextBuildingId, flight>>

CreateTransfer(u, from, to, amount, track) ==
    /\ nextTrId <= MaxTrRows
    /\ from \in DOMAIN accounts /\ to \in DOMAIN accounts
    /\ ~(accounts[from].currentBalance < amount)
    /\ accounts' = TransferredAccounts(accounts, from, to, amount)
    /\ InBalanceRange(accounts')
    /\ transfers' = transfers \cup
          { [id |-> nextTrId, userId |-> u, fromAccountId |-> from,
             toAccountId |-> to, amount |-> amount] }
    /\ nextTrId' = nextTrId + 1
    /\ applied' = applied \cup { <<"transfer", nextTrId, from>>, <<"transfer", nextTrId, to>> }
    /\ IF track
       THEN /\ tracked.phase = "none"
            /\ tracked' = [id |-> nextTrId, phase |-> "live", between |-> FALSE,
                        from |-> from, to |-> to]
            /\ shadow' = [a \in DOMAIN accounts |-> accounts[a].currentBalance]
       ELSE /\ tracked' = Between(from, to)
            /\ shadow' = ShadowAfter(accounts')
    /\ UNCHANGED <<nextAccId, transactions, nextTxId>>
    /\ UNCHANGED <<rentVars, last>>
    /\ UNCHANGED <<tenants, tzWest, buildings, nextBuildingId, flight, payment>>

(* createTransfer: the error it throws before any update, or "none". *)
TransferError(accts, from, to, amount) ==
    IF from \notin DOMAIN accts \/ to \notin DOMAIN accts
    THEN "One or both accounts not found"
    ELSE IF accts[from].currentBalance < amount
         THEN "Insufficient balance in the source account"
         ELSE "none"

(* A faulty createTransfer: one that debits the source account before it checks. *)
TransferDebitedFirst(accts, from, to, amount) ==
    IF from \in DOMAIN accts
    THEN [accts EXCEPT ![from].currentBalance = accts[from].currentBalance - amount]
    ELSE accts

(* createTransfer: the accounts a throwing call leaves. Both throws come before the
   first update, inside db.transaction. *)
TransferThrown(accts, from, to, amount) ==
    accts

(* createTransfer, when it throws. *)
CreateTransferFails(u, from, to, amount) ==
    /\ TransferError(accounts, from, to, amount) # "none"
    /\ accounts' = TransferThrown(accounts, from, to, amount)
    /\ InBalanceRange(accounts')
    /\ last' = Did(TransferError(accounts, from, to, amount), from, amount, to)
    /\ shadow' = ShadowAfter(accounts')
    /\ UNCHANGED <<nextAccId, transactions, nextTxId, transfers, nextTrId, tracked, applied>>
    /\ UNCHANGED rentVars
    /\ UNCHANGED <<tenants, tzWest, buildings, nextBuildingId, flight, payment>>

DeleteTransfer(id, u) ==
    /\ \E tr \in transfers :
         /\ tr.id = id
         /\ tr.userId = u
         /\ accounts' = IF tr.fromAccountId \in DOMAIN accounts
                           /\ tr.toAccountId \in DOMAIN accounts
                        THEN RevertedAccounts(accounts, tr.fromAccountId,
                                              tr.toAccountId, tr.amount)
                        ELSE accounts
         /\ InBalanceRange(accounts')
         /\ transfers' = transfers \ {tr}
         /\ applied' = IF tr.fromAccountId \in DOMAIN accounts
                           /\ tr.toAccountId \in DOMAIN accounts
                        THEN applied \ { <<"transfer", tr.id, tr.fromAccountId>>,
                                         <<"transfer", tr.id, tr.toAccountId>> }
                        ELSE applied
         /\ IF tracked.phase = "live" /\ tracked.id = id
            THEN /\ tracked' = [tracked EXCEPT !.phase = "deleted"]
                 /\ shadow' = shadow
            ELSE /\ tracked' = Between(tr.fromAccountId, tr.toAccountId)
                 /\ shadow' = ShadowAfter(accounts')
    /\ UNCHANGED <<nextAccId, transactions, nextTxId, nextTrId>>
    /\ UNCHANGED <<rentVars, last>>
    /\ UNCHANGED <<tenants, tzWest, buildings, nextBuildingId, flight, payment>>

InitBal ==
    /\ tzWest = FALSE
    /\ InitExt
    /\ now = ClockStart
    /\ shops = <<>>
    /\ nextShopId = 1
    /\ rentPayments = {}
    /\ nextRentId = 1
    /\ last = Did("init", NULL, 0, 0)
    /\ InitBalEmpty

NextBal ==
    \/ \E u \in Users, initial \in InitialBalances : CreateBankAccount(u, initial)
    \/ \E u \in Users, a \in 1..MaxAccounts, type \in {"income", "expense"}, amount \in Amounts :
         CreateTransaction(u, a, type, amount, NoRef)
    \/ \E id \in 1..MaxTxRows : DeleteTransaction(id)
    \/ \E u \in Users, from \in 1..MaxAccounts, to \in 1..MaxAccounts, amount \in Amounts,
          track \in BOOLEAN :
         CreateTransfer(u, from, to, amount, track)
    \/ \E id \in 1..MaxTrRows, u \in Users : DeleteTransfer(id, u)

SpecBal == InitBal /\ [][NextBal]_vars

----------------------------------------------------------------------------
(* Transfers, accepted and rejected *)

InitTransfer == InitBal

NextTransfer ==
    \/ \E u \in Users, initial \in InitialBalances : CreateBankAccount(u, initial)
    \/ \E u \in Users, from \in 1..MaxAccounts, to \in 1..MaxAccounts, amount \in Amounts :
         CreateTransfer(u, from, to, amount, FALSE)
    \/ \E u \in Users, from \in 1..MaxAccounts, to \in 1..MaxAccounts, amount \in Amounts :
         CreateTransferFails(u, from, to, amount)
    \/ \E id \in 1..MaxTrRows, u \in Users : DeleteTransfer(id, u)

SpecTransfer == InitTransfer /\ [][NextTransfer]_vars

----------------------------------------------------------------------------
(* The balance operations under a failure or a crash at any step.
   createTransaction, deleteTransaction and createTransfer run inside db.transaction:
   an interruption rolls every write back. deleteTransfer issues its statements
   directly on db, one after the other, so each of them is a step of its own. *)

Stored == [accounts |-> accounts, transactions |-> transactions, transfers |-> transfers]

(* A crash or error inside db.transaction: the open transaction is rolled back. *)
CrashInDbTransaction(of) ==
    /\ flight = Idle
    /\ \/ of = "createTransaction" /\ accounts # <<>> /\ nextTxId <= MaxTxRows
       \/ of = "deleteTransaction" /\ transactions # {}
       \/ of = "createTransfer" /\ accounts # <<>> /\ nextTrId <= MaxTrRows
    /\ flight' = [op |-> "crashed", of |-> of, before |-> Stored, after |-> Stored]
    /\ UNCHANGED <<rentVars, last>>
    /\ UNCHANGED balVars
    /\ UNCHANGED <<tenants, tzWest, buildings, nextBuildingId, applied, payment>>

(* deleteTransfer: the reads, up to the computation of the two new balances. *)
DeleteTransferBegin(id, u) ==
    /\ flight = Idle
    /\ \E tr \in transfers :
         /\ tr.id = id
         /\ tr.userId = u
         /\ tr.fromAccountId \in DOMAIN accounts
         /\ tr.toAccountId \in DOMAIN accounts
         /\ InBalanceRange(RevertedAccounts(accounts, tr.fromAccountId, tr.toAccountId, tr.amount))
         /\ flight' = [op |-> "deleteTransfer", pc |-> "updateFrom", transfer |-> tr,
                       newFromBalance |-> accounts[tr.fromAccountId].currentBalance + tr.amount,
                       newToBalance |-> accounts[tr.toAccountId].currentBalance - tr.amount,
                       before |-> Stored,
                       after |-> [accounts |-> RevertedAccounts(accounts, tr.fromAccountId,
                                                                tr.toAccountId, tr.amount),
                                  transactions |-> transactions,
                                  transfers |-> transfers \ {tr}]]
    /\ UNCHANGED <<rentVars, last>>
    /\ UNCHANGED balVars
    /\ UNCHANGED <<tenants, tzWest, buildings, nextBuildingId, applied, payment>>

(* deleteTransfer: the update of the source account. *)
DeleteTransferUpdateFrom ==
    /\ flight.op = "deleteTransfer" /\ flight.pc = "updateFrom"
    /\ accounts' = [accounts EXCEPT ![flight.transfer.fromAccountId].currentBalance =
                        flight.newFromBalance]
    /\ applied' = applied \ { <<"transfer", flight.transfer.id, flight.transfer.fromAccountId>> }
    /\ flight' = [flight EXCEPT !.pc = "updateTo"]
    /\ shadow' = ShadowAfter(accounts')
    /\ UNCHANGED <<nextAccId, transactions, nextTxId, transfers, nextTrId, tracked>>
    /\ UNCHANGED <<rentVars, last>>
    /\ UNCHANGED <<tenants, tzWest, buildings, nextBuildingId, payment>>

(* deleteTransfer: the update of the destination account. *)
DeleteTransferUpdateTo ==
    /\ flight.op = "deleteTransfer" /\ flight.pc = "updateTo"
    /\ accounts' = [accounts EXCEPT ![flight.transfer.toAccountId].currentBalance =
                        flight.newToBalance]
    /\ applied' = applied \ { <<"transfer", flight.transfer.id, flight.transfer.toAccountId>> }
    /\ flight' = [flight EXCEPT !.pc = "delete"]
    /\ shadow' = ShadowAfter(accounts')
    /\ UNCHANGED <<nextAccId, transactions, nextTxId, transfers, nextTrId, tracked>>
    /\ UNCHANGED <<rentVars, last>>
    /\ UNCHANGED <<tenants, tzWest, buildings, nextBuildingId, payment>>

(* deleteTransfer: the delete of the transfer row. *)
DeleteTransferDeleteRow ==
    /\ flight.op = "deleteTransfer" /\ flight.pc = "delete"
    /\ transfers' = { tr \in transfers : tr.id # flight.transfer.id }
    /\ flight' = Idle
    /\ UNCHANGED <<accounts, nextAccId, transactions, nextTxId, nextTrId, shadow, tracked>>
    /\ UNCHANGED <<rentVars, last>>
    /\ UNCHANGED <<tenants, tzWest, buildings, nextBuildingId, applied, payment>>

(* The process stops, or a statement fails, in the middle of deleteTransfer: what
   was written stays. *)
CrashInDeleteTransfer ==
    /\ flight.op = "deleteTransfer"
    /\ flight' = [op |-> "crashed", of |-> "deleteTransfer",
                  before |-> flight.before, after |-> flight.after]
    /\ UNCHANGED <<rentVars, last>>
    /\ UNCHANGED balVars
    /\ UNCHANGED <<tenants, tzWest, buildings, nextBuildingId, applied, payment>>

(* The server is started again. *)
Restart ==
    /\ flight.op = "crashed"
    /\ flight' = Idle
    /\ UNCHANGED <<rentVars, last>>
    /\ UNCHANGED balVars
    /\ UNCHANGED <<tenants, tzWest, buildings, nextBuildingId, applied, payment>>

(* The balance every account is opened with, and the amount every operation moves. *)
CrashBalance == 2
CrashAmount == 1

InitCrash == InitBal

NextCrash ==
    \/ \E u \in Users, initial \in {CrashBalance} :
         flight = Idle /\ CreateBankAccount(u, initial)
    \/ \E u \in Users, a \in 1..MaxAccounts, type \in {"income", "expense"}, amount \in {CrashAmount} :
         flight = Idle /\ CreateTransaction(u, a, type, amount, NoRef)
    \/ \E id \in 1..MaxTxRows : flight = Idle /\ DeleteTransaction(id)
    \/ \E u \in Users, from \in 1..MaxAccounts, to \in 1..MaxAccounts, amount \in {CrashAmount} :
         flight = Idle /\ CreateTransfer(u, from, to, amount, FALSE)
    \/ \E of \in {"createTransaction", "deleteTransaction", "createTransfer"} :
         CrashInDbTransaction(of)
    \/ \E id \in 1..MaxTrRows, u \in Users : DeleteTransferBegin(id, u)
    \/ DeleteTransferUpdateFrom
    \/ DeleteTransferUpdateTo
    \/ DeleteTransferDeleteRow
    \/ CrashInDeleteTransfer
    \/ Restart

SpecCrash == InitCrash /\ [][NextCrash]_vars

----------------------------------------------------------------------------
(* Backup and restore.
   Inside this section a table is the set of its rows, each with its id. The tenants
   and categories tables are not part of the model: every document is taken to
   carry the tenants its rows name. *)

TableOrder == <<"accounts", "buildings", "shops", "transactions", "transfers", "rentPayments">>

Tables == { TableOrder[k] : k \in DOMAIN TableOrder }

Ids(rows) == { r.id : r \in rows }

MaxId(rows) == IF rows = {} THEN 0 ELSE CHOOSE i \in Ids(rows) : \A j \in Ids(rows) : j <= i

AccountRows(accts) ==
    { [id |-> i, userId |-> accts[i].userId, initialBalance |-> accts[i].initialBalance,
       currentBalance |-> accts[i].currentBalance] : i \in DOMAIN accts }

AccountsFrom(rows) ==
    [ i \in Ids(rows) |->
        LET r == CHOOSE x \in rows : x.id = i
        IN [userId |-> r.userId, initialBalance |-> r.initialBalance,
            currentBalance |-> r.currentBalance] ]

ShopRows(shs) ==
    { [id |-> i, userId |-> shs[i].userId, buildingId |-> shs[i].buildingId,
       tenantId |-> shs[i].tenantId, allocated_at |-> shs[i].allocated_at,
       monthlyRent |-> shs[i].monthlyRent, isOccupied |-> shs[i].isOccupied]
      : i \in DOMAIN shs }

ShopsFrom(rows) ==
    [ i \in Ids(rows) |->
        LET r == CHOOSE x \in rows : x.id = i
        IN [userId |-> r.userId, buildingId |-> r.buildingId, tenantId |-> r.tenantId,
            allocated_at |-> r.allocated_at, monthlyRent |-> r.monthlyRent,
            isOccupied |-> r.isOccupied] ]

(* The database as the import sees it. *)
Database ==
    [ accounts |-> AccountRows(accounts), buildings |-> buildings, shops |-> ShopRows(shops),
      transactions |-> transactions, transfers |-> transfers, rentPayments |-> rentPayments ]

(* getFullBackup: the user's rows of every table. *)
GetFullBackup(db, u) ==
    [ t \in Tables |-> { r \in db[t] : r.userId = u } ]

(* deleteAllUserData: one delete per table. *)
DeleteStatements == 9

DeleteAllUserData(db, u) ==
    [ t \in Tables |-> { r \in db[t] : r.userId # u } ]

(* validateBackupData: every required array is there, and every row has its
   required properties. notArrays names the keys of the document that hold no array.
   The names and types of the rows are strings every document here carries. *)
HasRequired(backup, t, props) ==
    \A r \in backup[t] : \A prop \in props : r[prop] # Undefined /\ r[prop] # NULL

ValidBackup(backup) ==
    /\ backup.notArrays = {}
    /\ HasRequired(backup, "shops", {"buildingId"})
    /\ HasRequired(backup, "transactions", {"amount"})
    /\ HasRequired(backup, "transfers", {"amount", "fromAccountId", "toAccountId"})
    /\ HasRequired(backup, "rentPayments", {"amount", "shopId", "tenantId"})

(* The primary key of the table the rows are inserted into. *)
PrimaryKeyHolds(existing, rows) ==
    /\ Cardinality(Ids(rows)) = Cardinality(rows)
    /\ Ids(rows) \cap Ids(existing) = {}

(* The foreign keys of the schema, on the rows inserted into table t. *)
ForeignKeysHold(db, t, rows) ==
    LET refers(x, target) == x = NULL \/ x \in Ids(db[target])
    IN CASE t = "shops" -> \A r \in rows : r.buildingId \in Ids(db["buildings"])
         [] t = "transactions" ->
              \A r \in rows : /\ refers(r.accountId, "accounts")
                               /\ refers(r.shopId, "shops")
                               /\ refers(r.buildingId, "buildings")
         [] t = "transfers" ->
              \A r \in rows : /\ r.fromAccountId \in Ids(db["accounts"])
                               /\ r.toAccountId \in Ids(db["accounts"])
         [] t = "rentPayments" -> \A r \in rows : r.shopId \in Ids(db["shops"])
         [] OTHER -> TRUE

(* importBackupData: one insert per non-empty table, in the code's order, each row
   with its own id and the caller's userId. The inserts are not in a transaction:
   the one that fails leaves the earlier ones in place. *)
RECURSIVE InsertTables(_, _, _, _, _)
InsertTables(db, u, backup, k, writes) ==
    IF k > Len(TableOrder) THEN [ok |-> TRUE, db |-> db, writes |-> writes]
    ELSE LET t == TableOrder[k]
             rows == { [r EXCEPT !.userId = u] : r \in backup[t] }
         IN IF rows = {} THEN InsertTables(db, u, backup, k + 1, writes)
            ELSE IF PrimaryKeyHolds(db[t], rows) /\ ForeignKeysHold(db, t, rows)
                 THEN InsertTables([ x \in Tables |-> IF x = t THEN db[x] \cup rows ELSE db[x] ],
                                   u, backup, k + 1, writes + 1)
                 ELSE [ok |-> FALSE, db |-> db, writes |-> writes]

(* The choices of the row read first in each group of recalculateAllPendingRents. *)
FirstRows(rows) ==
    { firsts \in SUBSET rows :
        \A r \in rows : Cardinality({ f \in firsts : KeyOf(f) = KeyOf(r) }) = 1 }

(* A faulty resetAllSequences: one that leaves the sequences where they are. *)
SequencesLeft(db, seqs) ==
    seqs

(* resetAllSequences: setval(..., COALESCE(MAX(id), 0) + 1, false) for every table. *)
ResetAllSequences(db, seqs) ==
    [ t \in Tables |-> MaxId(db[t]) + 1 ]

Sequences ==
    [ accounts |-> nextAccId, buildings |-> nextBuildingId, shops |-> nextShopId,
      transactions |-> nextTxId, transfers |-> nextTrId, rentPayments |-> nextRentId ]

(* importBackupData: the inserts, then recalculateAllPendingRents, then
   resetAllSequences. *)
ImportBackupData(db, seqs, u, backup, writes) ==
    LET inserted == InsertTables(db, u, backup, 1, writes)
        mine == { r \in inserted.db["rentPayments"] : r.userId = u }
    IN IF ~inserted.ok THEN { [ok |-> FALSE, db |-> inserted.db, seqs |-> seqs,
                               writes |-> inserted.writes] }
       ELSE { [ok |-> TRUE,
               db |-> [ t \in Tables |->
                          IF t = "rentPayments"
                          THEN (inserted.db[t] \ mine) \cup Recalculated(mine, firsts)
                          ELSE inserted.db[t] ],
               seqs |-> ResetAllSequences(inserted.db, seqs),
               writes |-> inserted.writes + Cardinality(mine)]
              : firsts \in FirstRows(mine) }

(* POST /api/backup/import, the catch block: wipe, then import of the data read
   before the attempt. *)
RestorePrevious(db, seqs, u, currentData, writes, op) ==
    { [ok |-> r.ok, db |-> r.db, seqs |-> r.seqs, writes |-> r.writes,
       op |-> IF r.ok THEN op ELSE "importLost"]
      : r \in ImportBackupData(DeleteAllUserData(db, u), seqs, u, currentData,
                               writes + DeleteStatements) }

(* POST /api/backup/import: the outcomes of the handler for a parsed document. *)
ImportOutcomes(db, seqs, u, backup) ==
    LET currentData == GetFullBackup(db, u)
    IN IF ~ValidBackup(backup)
       THEN RestorePrevious(db, seqs, u, currentData, 0, "importInvalid")
       ELSE UNION { IF r.ok
                    THEN { [ok |-> TRUE, db |-> r.db, seqs |-> r.seqs, writes |-> r.writes,
                            op |-> "importOk"] }
                    ELSE RestorePrevious(r.db, r.seqs, u, currentData, r.writes,
                                         "importRestored")
                    : r \in ImportBackupData(DeleteAllUserData(db, u), seqs, u, backup,
                                             DeleteStatements) }

(* The documents uploaded. *)
DocAccount(id, balance) ==
    [id |-> id, userId |-> 1, initialBalance |-> balance, currentBalance |-> balance]

DocShop(id, b) ==
    [id |-> id, userId |-> 1, buildingId |-> b, tenantId |-> 1,
     allocated_at |-> [y |-> 2023, m |-> 11, d |-> 20, dateOnly |-> FALSE],
     monthlyRent |-> 2, isOccupied |-> TRUE]

DocRent(id, amount, paid, pending, status) ==
    [id |-> id, userId |-> 1, tenantId |-> 1, shopId |-> 1, month |-> 11, year |-> 2023,
     amount |-> amount, paidAmount |-> paid, pendingAmount |-> pending, status |-> status]

DocBase ==
    [ notArrays |-> {},
      accounts |-> {DocAccount(1, 2)}, buildings |-> {[id |-> 1, userId |-> 1]},
      shops |-> {DocShop(1, 1)},
      transactions |-> {TransactionRow(2, 1, 1, "income", 1, NoRef, ClockStart)},
      transfers |-> {}, rentPayments |-> {DocRent(1, 2, 1, 1, "pending")} ]

Documents ==
    << [DocBase EXCEPT !.accounts = {}, !.buildings = {}, !.shops = {},
                        !.transactions = {}, !.rentPayments = {}],
       DocBase,
       [DocBase EXCEPT !.rentPayments = {DocRent(1, 2, 1, 1, "pending"),
                                         DocRent(2, 2, 1, 1, "pending")}],
       [DocBase EXCEPT !.rentPayments = {DocRent(1, 2, 1, 0, "paid")}],
       [DocBase EXCEPT !.notArrays = {"rentPayments"}, !.rentPayments = {}],
       [DocBase EXCEPT !.rentPayments = {DocRent(1, NULL, 1, 1, "pending")}],
       [DocBase EXCEPT !.accounts = {DocAccount(1, 2), DocAccount(1, 1)}],
       [DocBase EXCEPT !.shops = {DocShop(1, 2)}] >>

(* POST /api/backup/import. *)
ImportBackup(u, d) ==
    /\ \E r \in ImportOutcomes(Database, Sequences, u, Documents[d]) :
         /\ accounts' = AccountsFrom(r.db["accounts"])
         /\ buildings' = r.db["buildings"]
         /\ shops' = ShopsFrom(r.db["shops"])
         /\ transactions' = r.db["transactions"]
         /\ transfers' = r.db["transfers"]
         /\ rentPayments' = r.db["rentPayments"]
         /\ nextAccId' = r.seqs["accounts"]
         /\ nextBuildingId' = r.seqs["buildings"]
         /\ nextShopId' = r.seqs["shops"]
         /\ nextTxId' = r.seqs["transactions"]
         /\ nextTrId' = r.seqs["transfers"]
         /\ nextRentId' = r.seqs["rentPayments"]
         /\ last' = Did(r.op, d, r.writes, 0)
    /\ shadow' = ShadowAfter(accounts')
    /\ UNCHANGED <<now, tracked, tenants, tzWest, flight, applied, payment>>

InitImport == Init

NextImport ==
    \/ \E u \in Users : CreateBuilding(u)
    \/ \E u \in Users, b \in 1..MaxBuildings, a \in AllocDates, rent \in {MaxAmount} :
         CreateShop(u, b, 1, a, rent)
    \/ \E u \in Users, b \in { x \in RentBodies : x.period[2] = 11 /\ x.amount = MaxAmount } :
         CreateRentPayment(u, b)
    \/ \E u \in Users : CreateBankAccount(u, CrashBalance)
    \/ \E u \in Users, a \in 1..MaxAccounts : CreateTransaction(u, a, "income", CrashAmount, NoRef)
    \/ \E u \in Users, d \in DOMAIN Documents : ImportBackup(u, d)

SpecImport == InitImport /\ [][NextImport]_vars

----------------------------------------------------------------------------
(* Export, then restoration of the export *)

(* GET /api/backup/export and the upload of its file: JSON.stringify of
   getFullBackup, then JSON.parse. Every array is there; ids, amounts and
   statuses come back as written, and a date comes back through its ISO string
   and parseDateField as the same instant. *)
ExportedDocument(db, u) ==
    [ k \in Tables \cup {"notArrays"} |->
        IF k = "notArrays" THEN {} ELSE GetFullBackup(db, u)[k] ]

(* The export of the user's data, then POST /api/backup/import of that file. *)
RestoreOwnExport(u) ==
    /\ \E r \in ImportOutcomes(Database, Sequences, u, ExportedDocument(Database, u)) :
         /\ accounts' = AccountsFrom(r.db["accounts"])
         /\ buildings' = r.db["buildings"]
         /\ shops' = ShopsFrom(r.db["shops"])
         /\ transactions' = r.db["transactions"]
         /\ transfers' = r.db["transfers"]
         /\ rentPayments' = r.db["rentPayments"]
         /\ nextAccId' = r.seqs["accounts"]
         /\ nextBuildingId' = r.seqs["buildings"]
         /\ nextShopId' = r.seqs["shops"]
         /\ nextTxId' = r.seqs["transactions"]
         /\ nextTrId' = r.seqs["transfers"]
         /\ nextRentId' = r.seqs["rentPayments"]
         /\ last' = Did("restoreExport", IF r.ok THEN 1 ELSE 0, r.writes,
                        Cardinality(rentPayments))
    /\ shadow' = ShadowAfter(accounts')
    /\ UNCHANGED <<now, tracked, tenants, tzWest, flight, applied, payment>>

InitRoundTrip == Init

NextRoundTrip ==
    \/ \E u \in Users : CreateBuilding(u)
    \/ \E u \in Users, b \in 1..MaxBuildings, a \in AllocDates, rent \in {MaxAmount} :
         CreateShop(u, b, 1, a, rent)
    \/ \E u \in Users, b \in { x \in RentBodies : x.period[2] = 11 /\ x.amount = MaxAmount } :
         CreateRentPayment(u, b)
    \/ \E u \in Users : CreateBankAccount(u, CrashBalance)
    \/ \E u \in Users, a \in 1..MaxAccounts : CreateTransaction(u, a, "income", CrashAmount, NoRef)
    \/ \E u \in Users : RestoreOwnExport(u)

SpecRoundTrip == InitRoundTrip /\ [][NextRoundTrip]_vars

----------------------------------------------------------------------------

(* The import when the database fails under it *)

(* What a failing statement throws: an Error with the driver's message, which
   may be empty, or a value that is no Error. *)
Messages == {"", "connection terminated"}

ErrorValues ==
    { [isError |-> TRUE, message |-> m] : m \in Messages }
      \cup { [isError |-> FALSE, message |-> "thrown"] }

Restored == "Import failed, previous data has been restored"
NotRestored == "Import failed and data restoration failed. Please contact support."

(* POST /api/backup/import, the response of the outer catch block: the message is
   chosen by the truth of restoreErrorMsg, and restoreError is left out when
   restoreErrorMsg is empty. *)
FailureResponse(error, caught, restoreError) ==
    LET restoreErrorMsg == IF ~caught THEN ""
                           ELSE IF restoreError.isError THEN restoreError.message
                           ELSE "Unknown restore error"
    IN [ message |-> IF restoreErrorMsg # "" THEN NotRestored ELSE Restored,
         error |-> IF error.isError THEN error.message ELSE "Unknown error",
         restoreError |-> IF restoreErrorMsg # "" THEN {restoreErrorMsg} ELSE {} ]

(* The first n tables of a document: what importBackupData has inserted when the
   statement after them fails. *)
Prefix(backup, n) ==
    [ t \in Tables |-> IF \E k \in 1..n : TableOrder[k] = t THEN backup[t] ELSE {} ]

RestoreFaults == {"wipe", "insert", "reset", "none"}

(* The catch block under a fault: the wipe throws, or the statement after the
   first n restored tables throws, or the statements of resetAllSequences fail
   and are only logged, or nothing fails. *)
RestoreUnderFault(db, seqs, u, currentData, fault, n) ==
    LET wiped == DeleteAllUserData(db, u)
    IN CASE fault = "wipe" -> { [db |-> db, seqs |-> seqs, rollback |-> "failed"] }
         [] fault = "insert" ->
              { [db |-> InsertTables(wiped, u, Prefix(currentData, n), 1, 0).db,
                 seqs |-> seqs, rollback |-> "failed"] }
         [] fault = "reset" ->
              { [db |-> r.db, seqs |-> seqs, rollback |-> "unreset"]
                : r \in ImportBackupData(wiped, seqs, u, currentData, 0) }
         [] OTHER ->
              { [db |-> r.db, seqs |-> r.seqs, rollback |-> "done"]
                : r \in ImportBackupData(wiped, seqs, u, currentData, 0) }

(* POST /api/backup/import of a valid document when the statement after the first
   m inserted tables throws error, and the restoration meets fault. *)
ImportBackupFails(u, d, m, error, fault, n, restoreError) ==
    LET backup == Documents[d]
        currentData == GetFullBackup(Database, u)
        attempt == InsertTables(DeleteAllUserData(Database, u), u, Prefix(backup, m), 1, 0)
    IN /\ ValidBackup(backup)
       /\ attempt.ok
       /\ fault = "insert" \/ n = 0
       /\ \E r \in RestoreUnderFault(attempt.db, Sequences, u, currentData, fault, n) :
            /\ accounts' = AccountsFrom(r.db["accounts"])
            /\ buildings' = r.db["buildings"]
            /\ shops' = ShopsFrom(r.db["shops"])
            /\ transactions' = r.db["transactions"]
            /\ transfers' = r.db["transfers"]
            /\ rentPayments' = r.db["rentPayments"]
            /\ nextAccId' = r.seqs["accounts"]
            /\ nextBuildingId' = r.seqs["buildings"]
            /\ nextShopId' = r.seqs["shops"]
            /\ nextTxId' = r.seqs["transactions"]
            /\ nextTrId' = r.seqs["transfers"]
            /\ nextRentId' = r.seqs["rentPayments"]
            /\ flight' = [ op |-> "importFailed", rollback |-> r.rollback,
                           thrown |-> IF r.rollback = "failed" THEN {restoreError} ELSE {},
                           response |-> FailureResponse(error, r.rollback = "failed",
                                                        restoreError) ]
       /\ last' = Did("importFailed", d, 0, 0)
       /\ shadow' = ShadowAfter(accounts')
       /\ UNCHANGED <<now, tracked, tenants, tzWest, applied, payment>>

InitFault == Init

NextFault ==
    \/ \E u \in Users : CreateBuilding(u)
    \/ \E u \in Users : CreateBankAccount(u, CrashBalance)
    \/ \E u \in Users, d \in {2}, m \in 0..Len(TableOrder), error \in ErrorValues,
          fault \in RestoreFaults :
         \E n \in IF fault = "insert" THEN 0..(Len(TableOrder) - 1) ELSE {0},
            restoreError \in IF fault \in {"wipe", "insert"} THEN ErrorValues
                             ELSE {[isError |-> FALSE, message |-> "thrown"]} :
           ImportBackupFails(u, d, m, error, fault, n, restoreError)

SpecFault == InitFault /\ [][NextFault]_vars

----------------------------------------------------------------------------

(* The scheduler of the sweep *)

(* The rows a run has inserted when it throws after its first k inserts. *)
InsertedBefore(st, k) ==
    rentPayments \cup { r \in st.rp \ rentPayments : r.id < nextRentId + k }

(* startRentPaymentScheduler, its first lines: the run at startup and
   resetAllSequences, which leaves every sequence at MAX(id) + 1, where the
   sequences of this specification already are; then setInterval. *)
StartupRun ==
    /\ flight.op = "starting"
    /\ LET st == SweepFrom([rp |-> rentPayments, nid |-> nextRentId], 1, shops, now)
       IN /\ st.nid <= MaxRentRows + 1
          /\ rentPayments' = st.rp
          /\ nextRentId' = MaxId(st.rp) + 1
    /\ flight' = [op |-> "scheduled"]
    /\ last' = Did("startupSweep", NULL, 0, 0)
    /\ UNCHANGED <<now, shops, nextShopId>>
    /\ UNCHANGED balVars
    /\ UNCHANGED <<tenants, tzWest, buildings, nextBuildingId, applied, payment>>

(* The run at startup throws after k inserts: the await is outside any try, the
   function rejects before setInterval, and .catch(console.error) logs it. *)
StartupRunFails(k) ==
    /\ flight.op = "starting"
    /\ LET st == SweepFrom([rp |-> rentPayments, nid |-> nextRentId], 1, shops, now)
       IN /\ st.nid <= MaxRentRows + 1
          /\ k <= st.nid - nextRentId
          /\ rentPayments' = InsertedBefore(st, k)
          /\ nextRentId' = nextRentId + k
    /\ flight' = [op |-> "rejected"]
    /\ last' = Did("startupSweepFailed", NULL, k, 0)
    /\ UNCHANGED <<now, shops, nextShopId>>
    /\ UNCHANGED balVars
    /\ UNCHANGED <<tenants, tzWest, buildings, nextBuildingId, applied, payment>>

(* The callback of setInterval, a run that completes. *)
IntervalRun ==
    /\ flight.op = "scheduled"
    /\ LET st == SweepFrom([rp |-> rentPayments, nid |-> nextRentId], 1, shops, now)
       IN /\ st.nid <= MaxRentRows + 1
          /\ rentPayments' = st.rp
          /\ nextRentId' = st.nid
    /\ last' = Did("sweep", NULL, 0, 0)
    /\ UNCHANGED <<now, shops, nextShopId>>
    /\ UNCHANGED balVars
    /\ UNCHANGED extVars

(* The callback of setInterval, a run that throws after k inserts: the catch
   logs the error and the interval stays registered. *)
IntervalRunFails(k) ==
    /\ flight.op = "scheduled"
    /\ LET st == SweepFrom([rp |-> rentPayments, nid |-> nextRentId], 1, shops, now)
       IN /\ st.nid <= MaxRentRows + 1
          /\ k <= st.nid - nextRentId
          /\ rentPayments' = InsertedBefore(st, k)
          /\ nextRentId' = nextRentId + k
    /\ last' = Did("sweepFailed", NULL, k, 0)
    /\ UNCHANGED <<now, shops, nextShopId>>
    /\ UNCHANGED balVars
    /\ UNCHANGED extVars

InitScheduler ==
    /\ tzWest = FALSE
    /\ buildings = {}
    /\ nextBuildingId = 1
    /\ flight = [op |-> "starting"]
    /\ applied = {}
    /\ payment = NoPayment
    /\ tenants = Tenants
    /\ now = ClockStart
    /\ shops = <<>>
    /\ nextShopId = 1
    /\ rentPayments = {}
    /\ nextRentId = 1
    /\ last = Did("init", NULL, 0, 0)
    /\ InitBalEmpty

NextScheduler ==
    \/ Tick
    \/ \E u \in Users : CreateBuilding(u)
    \/ \E u \in Users, b \in 1..MaxBuildings, t \in Tenants \cup {NULL},
          a \in AllocDates \cup {NoDate}, rent \in Rents :
         CreateShop(u, b, t, a, rent)
    \/ StartupRun
    \/ \E k \in 0..MaxRentRows : StartupRunFails(k)
    \/ IntervalRun
    \/ \E k \in 0..MaxRentRows : IntervalRunFails(k)

(* The timer fires every 24 hours, and a run that meets no error completes; the
   startup function runs once the process is up. *)
SpecScheduler ==
    /\ InitScheduler
    /\ [][NextScheduler]_vars
    /\ WF_vars(StartupRun \/ \E k \in 0..MaxRentRows : StartupRunFails(k))
    /\ WF_vars(IntervalRun)

----------------------------------------------------------------------------

(* The sweep and the payment upsert, statement by statement *)

RaceRows == 3

(* The sweep in progress: the shops it has read, the time it has read, and the
   shop and period its loops stand at. *)
SweepAt(shs, n, sid, y, m, pc) ==
    <<[shs |-> shs, n |-> n, sid |-> sid, y |-> y, m |-> m, pc |-> pc]>>

(* The next position of the loop over the shops, from shop sid on. *)
RECURSIVE SweepShopFrom(_, _, _)
SweepShopFrom(shs, n, sid) ==
    IF sid \notin DOMAIN shs THEN <<>>
    ELSE IF Allocated(shs[sid], n)
         THEN SweepAt(shs, n, sid, Local(shs[sid].allocated_at).y,
                      Local(shs[sid].allocated_at).m, "select")
         ELSE SweepShopFrom(shs, n, sid + 1)

(* m++; if (m > 12) { m = 1; y++ } *)
SweepAdvance(c) ==
    IF c.m + 1 > MonthsPerYear
    THEN SweepAt(c.shs, c.n, c.sid, c.y + 1, 1, "select")
    ELSE SweepAt(c.shs, c.n, c.sid, c.y, c.m + 1, "select")

raceFrame ==
    /\ UNCHANGED <<now, shops, nextShopId>>
    /\ UNCHANGED balVars
    /\ UNCHANGED <<tenants, tzWest, buildings, nextBuildingId, applied, payment>>

(* createMissingRentPaymentsForAllocatedShops: select all shops, new Date(). *)
SweepStart ==
    /\ flight.sweep = <<>>
    /\ flight' = [flight EXCEPT !.sweep = SweepShopFrom(shops, now, 1)]
    /\ last' = Did("sweepStart", NULL, 0, 0)
    /\ UNCHANGED <<rentPayments, nextRentId>>
    /\ raceFrame

(* The loop condition and the select of the period's records. *)
SweepSelect ==
    /\ flight.sweep # <<>>
    /\ LET c == flight.sweep[1]
           shop == c.shs[c.sid]
           lastP == LastPeriod(c.n)
       IN /\ c.pc = "select"
          /\ flight' = [flight EXCEPT !.sweep =
               IF ~(c.y < lastP.y \/ (c.y = lastP.y /\ c.m <= lastP.m))
               THEN SweepShopFrom(c.shs, c.n, c.sid + 1)
               ELSE IF ExistingRent(rentPayments, shop.userId, shop.tenantId,
                                    c.sid, c.m, c.y) = {}
                    THEN SweepAt(c.shs, c.n, c.sid, c.y, c.m, "insert")
                    ELSE SweepAdvance(c)]
    /\ last' = Did("sweepSelect", NULL, 0, 0)
    /\ UNCHANGED <<rentPayments, nextRentId>>
    /\ raceFrame

(* The insert that follows a select which found no record. *)
SweepInsert ==
    /\ flight.sweep # <<>>
    /\ LET c == flight.sweep[1]
           shop == c.shs[c.sid]
       IN /\ c.pc = "insert"
          /\ nextRentId <= RaceRows
          /\ rentPayments' = rentPayments \cup
                { AccruedRow(nextRentId, shop.userId, shop.tenantId, c.sid, c.m, c.y,
                             shop.monthlyRent) }
          /\ nextRentId' = nextRentId + 1
          /\ flight' = [flight EXCEPT !.sweep = SweepAdvance(c)]
          /\ last' = Did("sweepInsert", nextRentId, 0, 0)
    /\ raceFrame

(* upsertRentPayment: the select of the period's records. *)
UpsertSelect(u, b) ==
    /\ flight.upsert = <<>>
    /\ b.shopId \in DOMAIN shops
    /\ b.tenantId \in tenants
    /\ flight' = [flight EXCEPT !.upsert =
          <<[u |-> u, b |-> b,
             existing |-> ExistingRent(rentPayments, u, b.tenantId, b.shopId,
                                       b.period[2], b.period[1])]>>]
    /\ last' = Did("upsertSelect", NULL, 0, 0)
    /\ UNCHANGED <<rentPayments, nextRentId>>
    /\ raceFrame

(* upsertRentPayment: the update of existing[0], computed from the row as it was
   selected, or the insert when the select found nothing. *)
UpsertWrite ==
    /\ flight.upsert # <<>>
    /\ LET c == flight.upsert[1]
       IN IF c.existing # {}
          THEN \E prev \in c.existing : \E row \in rentPayments :
                 /\ row.id = prev.id
                 /\ prev.paidAmount + Number(c.b.paidAmount) <= MaxPaid
                 /\ LET new == UpsertExisting(prev, c.b.amount, c.b.paidAmount)
                    IN rentPayments' = (rentPayments \ {row}) \cup
                          { [row EXCEPT !.paidAmount = new.paidAmount,
                                        !.pendingAmount = new.pendingAmount,
                                        !.status = new.status] }
                 /\ nextRentId' = nextRentId
                 /\ last' = Did("upsert", prev.id, c.b.paidAmount, prev.paidAmount)
          ELSE /\ nextRentId <= RaceRows
               /\ BodyField(c.b.amount) # EmptyString
               /\ rentPayments' = rentPayments \cup {UpsertInserted(nextRentId, c.u, c.b)}
               /\ nextRentId' = nextRentId + 1
               /\ last' = Did("upsertInsert", nextRentId, 0, 0)
    /\ flight' = [flight EXCEPT !.upsert = <<>>]
    /\ raceFrame

InitRace ==
    /\ tzWest = FALSE
    /\ buildings = {}
    /\ nextBuildingId = 1
    /\ flight = [op |-> "idle", sweep |-> <<>>, upsert |-> <<>>]
    /\ applied = {}
    /\ payment = NoPayment
    /\ tenants = Tenants
    /\ now = ClockStart
    /\ shops = <<>>
    /\ nextShopId = 1
    /\ rentPayments = {}
    /\ nextRentId = 1
    /\ last = Did("init", NULL, 0, 0)
    /\ InitBalEmpty

NextRace ==
    \/ Tick
    \/ \E u \in Users : CreateBuilding(u)
    \/ \E u \in Users, b \in 1..MaxBuildings, a \in AllocDates, rent \in {MaxAmount} :
         CreateShop(u, b, 1, a, rent)
    \/ SweepStart
    \/ SweepSelect
    \/ SweepInsert
    \/ \E u \in Users, b \in { x \in RentBodies : x.amount = MaxAmount } : UpsertSelect(u, b)
    \/ UpsertWrite

SpecRace == InitRace /\ [][NextRace]_vars

----------------------------------------------------------------------------

(* A shop whose rent is edited *)

(* The updates that mention neither tenantId nor allocated_at. *)
RentOnlyUpdates == { x \in ShopUpdates : x.tenantId = Undefined /\ x.allocated_at = NoDate }

InitRentChange ==
    /\ tzWest \in BOOLEAN
    /\ InitExt
    /\ now = ClockStart
    /\ shops = <<>>
    /\ nextShopId = 1
    /\ rentPayments = {}
    /\ nextRentId = 1
    /\ last = Did("init", NULL, 0, 0)
    /\ InitBalEmpty

NextRentChange ==
    \/ Tick
    \/ \E u \in Users : CreateBuilding(u)
    \/ \E u \in Users, b \in 1..MaxBuildings, t \in Tenants \cup {NULL},
          a \in AllocDates \cup {NoDate}, rent \in Rents :
         CreateShop(u, b, t, a, rent)
    \/ \E id \in 1..MaxShops, u \in Users, upd \in RentOnlyUpdates : UpdateShop(id, u, upd)
    \/ Sweep

SpecRentChange == InitRentChange /\ [][NextRentChange]_vars

----------------------------------------------------------------------------

(* The life of a shop: created, updated, deallocated, its tenant deleted, while
   the clock advances *)

InitShop == Init

NextShop ==
    \/ Tick
    \/ \E u \in Users : CreateBuilding(u)
    \/ \E u \in Users, b \in 1..MaxBuildings, t \in Tenants \cup {NULL},
          a \in AllocDates \cup {NoDate}, rent \in Rents :
         CreateShop(u, b, t, a, rent)
    \/ \E id \in 1..MaxShops, u \in Users, upd \in ShopUpdates : UpdateShop(id, u, upd)
    \/ \E t \in Tenants, u \in Users : DeleteTenant(t, u)

SpecShop == InitShop /\ [][NextShop]_vars

----------------------------------------------------------------------------
(* Buildings and what refers to them *)

(* deleteBuilding: the statements run one after the other on db. For each shop of
   the building its rent payments go and its transactions lose their shopId; the
   shops go; then the delete of the building row is attempted, and fails on the
   foreign key of a row that still refers to the building. *)
DeleteBuilding(id, u) ==
    LET shopsToDelete == { sid \in DOMAIN shops :
                             shops[sid].buildingId = id /\ shops[sid].userId = u }
        referred == \/ \E tx \in transactions : tx.buildingId = id
                    \/ \E sid \in DOMAIN shops \ shopsToDelete : shops[sid].buildingId = id
    IN /\ \E b \in buildings : b.id = id /\ b.userId = u
       /\ rentPayments' = { r \in rentPayments : r.shopId \notin shopsToDelete }
       /\ transactions' = { IF tx.shopId \in shopsToDelete THEN [tx EXCEPT !.shopId = NULL]
                                                            ELSE tx : tx \in transactions }
       /\ shops' = [ sid \in DOMAIN shops \ shopsToDelete |-> shops[sid] ]
       /\ buildings' = IF referred THEN buildings
                       ELSE { b \in buildings : ~(b.id = id /\ b.userId = u) }
       /\ last' = Did(IF referred THEN "deleteBuildingFailed" ELSE "deleteBuilding", id, 0, 0)
       /\ UNCHANGED <<now, nextShopId, nextRentId>>
       /\ UNCHANGED <<accounts, nextAccId, nextTxId, transfers, nextTrId, tracked, shadow>>
       /\ UNCHANGED <<tenants, tzWest, nextBuildingId, flight, applied, payment>>

InitBuilding == Init

NextBuilding ==
    \/ \E u \in Users : CreateBuilding(u)
    \/ \E u \in Users, b \in 1..MaxBuildings, a \in AllocDates, rent \in Rents :
         CreateShop(u, b, 1, a, rent)
    \/ \E u \in Users : CreateBankAccount(u, 0)
    \/ \E u \in Users, b \in RentBodies, a \in 1..MaxAccounts :
         RecordRentPayment(u, b, a, FALSE)
    \/ \E id \in 1..MaxTxRows : DeleteTransaction(id)
    \/ \E id \in 1..MaxBuildings, u \in Users : DeleteBuilding(id, u)

SpecBuilding == InitBuilding /\ [][NextBuilding]_vars

----------------------------------------------------------------------------
(* Deletions and the rows that refer to what is deleted *)

(* deleteShop: the shop's rent payments go, its transactions lose their shopId,
   and the shop row is deleted. *)
DeleteShop(id, u) ==
    /\ id \in DOMAIN shops
    /\ shops[id].userId = u
    /\ rentPayments' = { r \in rentPayments : r.shopId # id }
    /\ transactions' = { IF tx.shopId = id THEN [tx EXCEPT !.shopId = NULL] ELSE tx
                         : tx \in transactions }
    /\ shops' = [ sid \in DOMAIN shops \ {id} |-> shops[sid] ]
    /\ last' = Did("deleteShop", id, 0, 0)
    /\ UNCHANGED <<now, nextShopId, nextRentId>>
    /\ UNCHANGED <<accounts, nextAccId, nextTxId, transfers, nextTrId, tracked, shadow>>
    /\ UNCHANGED <<tenants, tzWest, buildings, nextBuildingId, flight, applied, payment>>

(* A faulty deleteBankAccount: one that removes only the transfers out of the account. *)
TransfersWithoutSource(trs, id) ==
    { tr \in trs : tr.fromAccountId # id }

(* deleteBankAccount: the transfers left, those with the account on neither side. *)
TransfersWithout(trs, id) ==
    { tr \in trs : tr.fromAccountId # id /\ tr.toAccountId # id }

(* deleteBankAccount: the account's transactions go, the transfers with the account
   on either side go, and the account row is deleted. No balance is written. *)
DeleteBankAccount(id) ==
    /\ id \in DOMAIN accounts
    /\ transactions' = { tx \in transactions : tx.accountId # id }
    /\ transfers' = TransfersWithout(transfers, id)
    /\ accounts' = [ a \in DOMAIN accounts \ {id} |-> accounts[a] ]
    /\ applied' = { leg \in applied :
                      /\ leg[3] # id
                      /\ leg[1] = "transfer" => \E tr \in transfers' : tr.id = leg[2] }
    /\ shadow' = ShadowAfter(accounts')
    /\ last' = Did("deleteBankAccount", id, Cardinality(transfers \ transfers'),
                   Cardinality(transactions \ transactions'))
    /\ UNCHANGED <<nextAccId, nextTxId, nextTrId, tracked>>
    /\ UNCHANGED rentVars
    /\ UNCHANGED <<tenants, tzWest, buildings, nextBuildingId, flight, payment>>

InitDelete == Init

NextDelete ==
    \/ \E u \in Users : CreateBuilding(u)
    \/ \E u \in Users, b \in 1..MaxBuildings, a \in AllocDates, rent \in Rents :
         CreateShop(u, b, 1, a, rent)
    \/ \E u \in Users : CreateBankAccount(u, CrashBalance)
    \/ \E u \in Users, b \in RentBodies, a \in 1..MaxAccounts :
         RecordRentPayment(u, b, a, FALSE)
    \/ \E u \in Users, from \in 1..MaxAccounts, to \in 1..MaxAccounts :
         CreateTransfer(u, from, to, CrashAmount, FALSE)
    \/ \E t \in Tenants, u \in Users : DeleteTenant(t, u)
    \/ \E id \in 1..MaxShops, u \in Users : DeleteShop(id, u)
    \/ \E id \in 1..MaxBuildings, u \in Users : DeleteBuilding(id, u)
    \/ \E id \in 1..MaxAccounts : DeleteBankAccount(id)

SpecDelete == InitDelete /\ [][NextDelete]_vars

----------------------------------------------------------------------------
(* Allocation dates, on a server in any time zone *)

InitAlloc ==
    /\ tzWest \in BOOLEAN
    /\ InitExt
    /\ now = ClockStart
    /\ shops = <<>>
    /\ nextShopId = 1
    /\ rentPayments = {}
    /\ nextRentId = 1
    /\ last = Did("init", NULL, 0, 0)
    /\ InitBalEmpty

NextAlloc ==
    \/ Tick
    \/ \E u \in Users : CreateBuilding(u)
    \/ \E u \in Users, b \in 1..MaxBuildings, t \in Tenants \cup {NULL},
          a \in AllocDates \cup {NoDate}, rent \in Rents :
         CreateShop(u, b, t, a, rent)
    \/ \E id \in 1..MaxShops, u \in Users, upd \in ShopUpdates : UpdateShop(id, u, upd)
    \/ \E u \in Users, b \in RentBodies : CreateRentPayment(u, b)

SpecAlloc == InitAlloc /\ [][NextAlloc]_vars

----------------------------------------------------------------------------
(* Rent payments and the transactions that represent them *)

InitPay == Init

NextPay ==
    \/ Tick
    \/ \E u \in Users : CreateBuilding(u)
    \/ \E u \in Users, b \in 1..MaxBuildings, a \in AllocDates, rent \in Rents :
         CreateShop(u, b, 1, a, rent)
    \/ Sweep
    \/ \E u \in Users : CreateBankAccount(u, 0)
    \/ \E u \in Users, b \in RentBodies, a \in 1..MaxAccounts, track \in BOOLEAN :
         RecordRentPayment(u, b, a, track)
    \/ \E id \in 1..MaxTxRows : DeleteTransaction(id)

SpecPay == InitPay /\ [][NextPay]_vars

----------------------------------------------------------------------------
(* Editing an account *)

(* The bodies PUT /api/accounts/:id receives: the two balance columns, each
   present or absent. The edit form of AddAccountModal sends initialBalance and
   no currentBalance. *)
AccountUpdates ==
    [ initialBalance : InitialBalances \cup {Undefined},
      currentBalance : InitialBalances \cup {Undefined} ]

(* updateBankAccount: .set(updates) writes every column the body names. *)
SetColumns(account, updates) ==
    [ userId |-> account.userId,
      initialBalance |-> IF updates.initialBalance = Undefined
                         THEN account.initialBalance ELSE updates.initialBalance,
      currentBalance |-> IF updates.currentBalance = Undefined
                         THEN account.currentBalance ELSE updates.currentBalance ]

UpdateBankAccount(id, updates) ==
    /\ id \in DOMAIN accounts
    /\ accounts' = [ a \in DOMAIN accounts |->
                       IF a = id THEN SetColumns(accounts[a], updates) ELSE accounts[a] ]
    /\ shadow' = ShadowAfter(accounts')
    /\ last' = Did("updateBankAccount", id, accounts[id].initialBalance,
                   accounts[id].currentBalance)
    /\ UNCHANGED <<nextAccId, transactions, nextTxId, transfers, nextTrId, tracked, applied>>
    /\ UNCHANGED rentVars
    /\ UNCHANGED <<tenants, tzWest, buildings, nextBuildingId, flight, payment>>

InitAccount == InitBal

NextAccount ==
    \/ \E u \in Users, initial \in InitialBalances : CreateBankAccount(u, initial)
    \/ \E id \in 1..MaxAccounts, updates \in AccountUpdates : UpdateBankAccount(id, updates)
    \/ \E u \in Users, a \in 1..MaxAccounts :
         CreateTransaction(u, a, "income", CrashAmount, NoRef)
    \/ \E id \in 1..MaxTxRows : DeleteTransaction(id)

SpecAccount == InitAccount /\ [][NextAccount]_vars

----------------------------------------------------------------------------

(* Two users: the one who acts, and another whose data is already stored *)

Others == {2}

(* The stored rows of user v, table by table, with the balances of v's accounts. *)
DataOf(v) ==
    [ accounts |-> { r \in AccountRows(accounts) : r.userId = v },
      buildings |-> { r \in buildings : r.userId = v },
      shops |-> { r \in ShopRows(shops) : r.userId = v },
      transactions |-> { r \in transactions : r.userId = v },
      transfers |-> { r \in transfers : r.userId = v },
      rentPayments |-> { r \in rentPayments : r.userId = v } ]

(* The other user has created an account with CrashBalance and recorded a personal
   income of CrashAmount on it. *)
InitOwner ==
    /\ tzWest = FALSE
    /\ InitExt
    /\ now = ClockStart
    /\ shops = <<>>
    /\ nextShopId = 1
    /\ rentPayments = {}
    /\ nextRentId = 1
    /\ last = Did("init", NULL, 0, 0)
    /\ \E v \in Others :
         /\ accounts = <<[NewAccount(v, CrashBalance) EXCEPT
                            !.currentBalance = CrashBalance + CrashAmount]>>
         /\ transactions = { TransactionRow(1, v, 1, "income", CrashAmount, NoRef, ClockStart) }
    /\ nextAccId = 2
    /\ nextTxId = 2
    /\ transfers = {}
    /\ nextTrId = 1
    /\ tracked = [id |-> NULL, phase |-> "none", between |-> FALSE,
                  from |-> NULL, to |-> NULL]
    /\ shadow = <<CrashBalance + CrashAmount>>

(* Every request is made by a user of Users; the transactions are personal, so
   DELETE /api/transactions/:id has no rent record to reverse. *)
NextOwner ==
    \/ \E u \in Users : CreateBankAccount(u, CrashBalance)
    \/ \E u \in Users, a \in 1..MaxAccounts :
         CreateTransaction(u, a, "income", CrashAmount, NoRef)
    \/ \E id \in 1..MaxTxRows : DeleteTransaction(id)
    \/ \E id \in 1..MaxAccounts,
          updates \in { x \in AccountUpdates : x.currentBalance = Undefined } :
         UpdateBankAccount(id, updates)
    \/ \E id \in 1..MaxAccounts : DeleteBankAccount(id)
    \/ \E u \in Users, d \in 1..2 : ImportBackup(u, d)

SpecOwner == InitOwner /\ [][NextOwner]_vars

----------------------------------------------------------------------------

(* Claims about the Balance Mutator *)

RECURSIVE SumAmount(_)
SumAmount(rows) ==
    IF rows = {} THEN 0
    ELSE LET r == CHOOSE x \in rows : TRUE
         IN r.amount + SumAmount(rows \ {r})

(* The balance of account a recomputed from the rows that reference it. *)
RecomputedBalance(a) ==
    accounts[a].initialBalance
      + SumAmount({ tx \in transactions : tx.accountId = a /\ tx.type = "income" })
      - SumAmount({ tx \in transactions : tx.accountId = a /\ tx.type = "expense" })
      - SumAmount({ tr \in transfers : tr.fromAccountId = a })
      + SumAmount({ tr \in transfers : tr.toAccountId = a })

(* C2: after any sequence of createBankAccount, createTransaction, deleteTransaction,
   createTransfer and deleteTransfer, every account's stored currentBalance equals
   its balance recomputed from the transactions and transfers that reference it. *)
C2_BalanceConsistent ==
    \A a \in DOMAIN accounts : accounts[a].currentBalance = RecomputedBalance(a)

(* C3: once a transfer has been created and later deleted, every account holds the
   balance it would hold had the transfer never been created, whatever other
   transactions and transfers ran on its two accounts in between. *)
C3_TransferReversalExact ==
    tracked.phase = "deleted" =>
        \A a \in DOMAIN accounts : accounts[a].currentBalance = shadow[a]

(* C3's case: a transfer between two different accounts was created and deleted,
   with other activity on its accounts in between. *)
C3_Witness ==
    /\ tracked.phase = "deleted"
    /\ tracked.from # tracked.to
    /\ tracked.between
    /\ transfers # {}
    /\ transactions # {}
    /\ accounts[tracked.from].currentBalance # accounts[tracked.from].initialBalance

----------------------------------------------------------------------------
(* Claims about the rent ledger *)

(* The ledger as the generator reads and writes it. *)
Ledger == [rp |-> rentPayments, nid |-> nextRentId]

(* C1: in every reachable state every rent-period record has
   pendingAmount = max(amount - paidAmount, 0), amount being the amount stored on
   the record, and has status "paid" exactly when pendingAmount is 0. *)
C1_LedgerInvariant ==
    \A r \in rentPayments :
        /\ r.pendingAmount = Max(r.amount - r.paidAmount, 0)
        /\ (r.status = "paid") <=> (r.pendingAmount = 0)

(* C4: once the generator has run (the sweep, or the accrual step of createShop or
   updateShop), running it again for the same shop, tenant and now inserts no
   record and changes no field of any record. *)
C4_AccrualIdempotent ==
    /\ last.op = "sweep" => SweepFrom(Ledger, 1, shops, now) = Ledger
    /\ last.op \in {"createShop", "updateShop"} /\ Allocated(shops[last.rid], now)
         => /\ AccrueShop(Ledger, last.rid, shops[last.rid], LastPeriod(now)) = Ledger
            /\ AccrueShop(Ledger, last.rid, shops[last.rid], LastPeriodCreateShop(now)) = Ledger

(* C4's case: the generator has just run over an allocated shop and has left a
   record for the last period. *)
C4_Witness ==
    /\ last.op \in {"sweep", "updateShop"}
    /\ \E sid \in DOMAIN shops :
         /\ Allocated(shops[sid], now)
         /\ ExistingRent(rentPayments, shops[sid].userId, shops[sid].tenantId, sid,
                         LastPeriod(now).m, LastPeriod(now).y) # {}

(* C5: in every reachable state at most one rent-period record exists per
   (tenant, shop, month, year). *)
C5_NaturalKeyUnique ==
    \A r \in rentPayments : \A q \in rentPayments : KeyOf(r) = KeyOf(q) => r.id = q.id

(* C6: no record ever has a negative paidAmount, and a reversal larger than the
   record's paidAmount leaves that paidAmount at 0. *)
C6_ReversalNeverNegative ==
    /\ \A r \in rentPayments : r.paidAmount >= 0
    /\ last.op = "reverse" =>
         \A r \in rentPayments :
             r.id = last.rid /\ last.amt > last.was => r.paidAmount = 0

(* C6's case: a reversal larger than a positive paidAmount has just run. *)
C6_Witness ==
    /\ last.op = "reverse"
    /\ last.was > 0
    /\ last.amt > last.was
    /\ \E r \in rentPayments : r.id = last.rid /\ r.paidAmount = 0

(* The periods from a's month through the month before n's month. *)
ElapsedPeriods(a, n) ==
    { p \in (a.y .. n.y) \X (1 .. MonthsPerYear) :
        /\ p[1] * MonthsPerYear + p[2] >= a.y * MonthsPerYear + a.m
        /\ p[1] * MonthsPerYear + p[2] < n.y * MonthsPerYear + n.m }

(* What a run of the generator over shop sid is to leave behind. *)
AccruedAsSpecified(sid) ==
    LET shop == shops'[sid]
        due == ElapsedPeriods(shop.allocated_at, now')
    IN Allocated(shop, now') =>
         /\ \A p \in due :
              Cardinality(ExistingRent(rentPayments', shop.userId, shop.tenantId,
                                       sid, p[2], p[1])) = 1
         /\ \A r \in rentPayments' \ rentPayments :
              r.shopId = sid =>
                /\ <<r.year, r.month>> \in due
                /\ r.amount = shop.monthlyRent
                /\ r.paidAmount = 0
                /\ r.pendingAmount = r.amount
                /\ r.status = "pending"

(* C7: for a shop with a tenant and an allocation date A <= now, a run of the
   generator leaves exactly one record for each month from A's month through the
   month before now's month, inserts none for now's month or later, and inserts
   each record with amount = the shop's monthlyRent, paidAmount = 0,
   pendingAmount = amount and status pending. *)
C7_AccrualExact ==
    [][ /\ last'.op = "sweep" => \A sid \in DOMAIN shops' : AccruedAsSpecified(sid)
        /\ last'.op \in {"createShop", "updateShop"} => AccruedAsSpecified(last'.rid)
      ]_vars

(* C8: a record keeps the amount it was created with through every step: shop
   updates, accrual runs, payments, reversals and recalculateAllPendingRents. *)
C8_AmountFixed ==
    [][ \A r \in rentPayments : \A q \in rentPayments' :
            q.id = r.id => q.amount = r.amount ]_vars

(* C8's case: the shop's rent was changed after a period was generated and paid;
   the old record keeps the old rent, the record generated later carries the new. *)
C8_Witness ==
    /\ last.op = "sweep"
    /\ \E sid \in DOMAIN shops : \E r \in rentPayments : \E q \in rentPayments :
         /\ r.shopId = sid /\ q.shopId = sid
         /\ r.id < q.id
         /\ r.paidAmount > 0
         /\ r.amount # shops[sid].monthlyRent
         /\ q.amount = shops[sid].monthlyRent

(* C9: no sequence of payments leaves a record with paidAmount above its amount. *)
C9_OverpayRejected ==
    \A r \in rentPayments : r.paidAmount <= r.amount

(* C10: a payment upserted onto an existing record adds its paid amount to the
   record's paidAmount and recomputes pendingAmount and status from the new
   paidAmount against the amount stored on the record. *)
C10_UpsertAccumulates ==
    last.op = "upsert" =>
        \A r \in rentPayments :
            r.id = last.rid =>
              /\ r.paidAmount = last.was + last.amt
              /\ r.pendingAmount = Pending(r.amount, r.paidAmount)
              /\ r.status = StatusOf(r.pendingAmount)

----------------------------------------------------------------------------
(* Claims about rent payments and their transactions *)

(* C11: once a rent payment has been recorded on a period's record and the income
   transaction that represented it has been deleted, with no other write to the
   record in between, the record's paidAmount, pendingAmount and status are what
   they were before the payment, whatever the month the payment was made in. *)
C11_PaymentReversalRestores ==
    payment.phase = "reversed" /\ ~payment.touched =>
        \A r \in rentPayments :
            r.id = payment.rid =>
              /\ r.paidAmount = payment.before.paidAmount
              /\ r.pendingAmount = payment.before.pendingAmount
              /\ r.status = payment.before.status

(* C12: a createTransfer call that fails, because the source balance is below the
   amount or because an account does not exist, leaves both balances as they were
   and writes no transfer row. *)
C12_RejectedTransferWritesNothing ==
    [][ (last' # last /\ last'.op \in { "One or both accounts not found",
                                        "Insufficient balance in the source account" })
          => /\ accounts' = accounts
             /\ transfers' = transfers
             /\ nextTrId' = nextTrId ]_vars

(* A transfer between two existing accounts has been rejected for its amount. *)
C12_Witness ==
    /\ last.op = "Insufficient balance in the source account"
    /\ last.rid # last.was
    /\ last.rid \in DOMAIN accounts /\ last.was \in DOMAIN accounts
    /\ accounts[last.rid].currentBalance < last.amt

(* C13: createTransaction, deleteTransaction, createTransfer and deleteTransfer are
   each all-or-nothing: when one of them is interrupted by a failure or a crash at
   any step, the balances and the rows are either what they were before the
   operation or what the completed operation leaves. *)
C13_AllOrNothing ==
    flight.op = "crashed" => (Stored = flight.before \/ Stored = flight.after)

----------------------------------------------------------------------------
(* Claims about backup and restore *)

(* C14: when an import fails after the wipe and the rollback succeeds, the user's
   rows of every table are the same, ids and fields, as before the import. *)
C14_FailedImportRestoresRows ==
    [][ (last'.op = "importRestored" /\ last' # last) => Database' = Database ]_vars

(* C15: an import whose document fails validation performs no write at all. *)
C15_InvalidImportWritesNothing ==
    last.op = "importInvalid" => last.amt = 0

(* C16: after a successful import every rent record has pendingAmount equal to
   max(amount - paidAmount, 0) and status "paid" exactly when pendingAmount is 0,
   whatever the values and however many rows per key the document had. *)
C16_ImportedRentsConsistent ==
    last.op = "importOk" =>
        \A r \in rentPayments :
            /\ r.pendingAmount = Pending(r.amount, r.paidAmount)
            /\ (r.status = "paid") <=> (r.pendingAmount = 0)

(* C17: a successful import leaves in every table the ids of the document and sets
   every table's id counter to max(id) + 1; from then on every counter stays above
   every id of its table, so that a later create never takes an id in use. *)
C17_ImportKeepsIdsAndResetsCounters ==
    [][ /\ (last'.op = "importOk" /\ last' # last) =>
             \A t \in Tables :
                 /\ Ids(Database'[t]) = Ids(Documents[last'.rid][t])
                 /\ Sequences'[t] = MaxId(Database'[t]) + 1
        /\ \A t \in Tables : Sequences'[t] > MaxId(Database'[t]) ]_vars

(* An account has been created after a successful import of a document with accounts. *)
C17_Witness ==
    /\ last.op = "importOk"
    /\ Documents[last.rid].accounts # {}
    /\ Ids(AccountRows(accounts)) # Ids(Documents[last.rid].accounts)
    /\ Ids(Documents[last.rid].accounts) \subseteq DOMAIN accounts

----------------------------------------------------------------------------
(* Claims about shops and buildings *)

(* C18: in every reachable state, whether the shop was created, updated or
   deallocated, its tenant deleted, or the clock advanced, a shop's isOccupied is
   true exactly when its tenantId is set and its allocated_at is a date not after
   now; and a shop without tenantId has no allocated_at and isOccupied false. *)
C18_OccupiedIffAllocated ==
    \A sid \in DOMAIN shops :
        /\ shops[sid].isOccupied <=> Allocated(shops[sid], now)
        /\ shops[sid].tenantId = NULL =>
               shops[sid].allocated_at = NoDate /\ ~shops[sid].isOccupied

(* C19: after updateShop has set an allocation date A not after now on a shop with
   tenant T, there is no record of (T, shop) for a period before A's month, there
   is a record for every period from A's month through the month before now's, and
   the records of (T, shop) for A's month or later that existed before are unchanged. *)
C19_UpdateShopRegenerates ==
    [][ last'.op = "updateShop" =>
          LET sid == last'.rid
              shop == shops'[sid]
              A == shop.allocated_at
              mine(r) == r.tenantId = shop.tenantId /\ r.shopId = sid
              before(r) == r.year * MonthsPerYear + r.month < A.y * MonthsPerYear + A.m
          IN (shop.tenantId # NULL /\ A # NoDate /\ DateLE(A, now')) =>
               /\ \A r \in rentPayments' : mine(r) => ~before(r)
               /\ \A p \in ElapsedPeriods(A, now') :
                     \E r \in rentPayments' : mine(r) /\ r.year = p[1] /\ r.month = p[2]
               /\ \A r \in rentPayments : mine(r) /\ ~before(r) => r \in rentPayments' ]_vars

(* C20: deleteBuilding never ends, with success or with an error, in a state where
   the building's shops or their rent periods have been removed while the building
   row is still there, also when a transaction refers to the building by buildingId. *)
C20_BuildingDeletedWithItsShops ==
    [][ ( /\ last' # last
          /\ last'.op \in {"deleteBuilding", "deleteBuildingFailed"}
          /\ \E b \in buildings' : b.id = last'.rid )
        => (shops' = shops /\ rentPayments' = rentPayments) ]_vars

----------------------------------------------------------------------------
(* Claims about deletions, accounts and ownership *)

(* C21: after any sequence of deleteTenant, deleteShop, deleteBuilding and
   deleteBankAccount calls no remaining row refers to a deleted entity: every rent
   record names an existing tenant and shop, every shop an existing building and
   tenant (or none), every transaction an existing account, tenant, shop and
   building (or none), and every transfer two existing accounts. *)
C21_NoDanglingReference ==
    LET tenantOk(t) == t = NULL \/ t \in tenants
        shopOk(x) == x = NULL \/ x \in DOMAIN shops
        buildingOk(b) == b = NULL \/ b \in Ids(buildings)
        accountOk(a) == a = NULL \/ a \in DOMAIN accounts
    IN /\ \A r \in rentPayments : r.tenantId \in tenants /\ r.shopId \in DOMAIN shops
       /\ \A sid \in DOMAIN shops :
             tenantOk(shops[sid].tenantId) /\ shops[sid].buildingId \in Ids(buildings)
       /\ \A tx \in transactions :
             /\ accountOk(tx.accountId) /\ tenantOk(tx.tenantId)
             /\ shopOk(tx.shopId) /\ buildingOk(tx.buildingId)
       /\ \A tr \in transfers :
             tr.fromAccountId \in DOMAIN accounts /\ tr.toAccountId \in DOMAIN accounts

(* An account has been deleted together with a transfer it took part in, and
   another account remains. *)
C21_Witness ==
    /\ last.op = "deleteBankAccount"
    /\ last.amt > 0
    /\ accounts # <<>>

(* C22: when an account is deleted, every remaining account whose stored balance
   agreed with its transactions and transfers before the deletion still agrees
   with them after it, the other side of a removed transfer included. *)
C22_DeleteAccountKeepsBalances ==
    [][ (last'.op = "deleteBankAccount" /\ last' # last) =>
          \A b \in DOMAIN accounts' :
             (accounts[b].currentBalance = RecomputedBalance(b)) =>
                (accounts[b].currentBalance = RecomputedBalance(b))' ]_vars

(* C23: an account is created with currentBalance equal to initialBalance, and
   updateBankAccount changes neither the currentBalance nor the initialBalance
   of any account. *)
C23_UpdateKeepsBalances ==
    [][ /\ \A a \in DOMAIN accounts' \ DOMAIN accounts :
              accounts'[a].currentBalance = accounts'[a].initialBalance
        /\ (last'.op = "updateBankAccount" /\ last' # last) =>
              \A a \in DOMAIN accounts :
                 /\ accounts'[a].currentBalance = accounts[a].currentBalance
                 /\ accounts'[a].initialBalance = accounts[a].initialBalance ]_vars

(* C24: every stored transfer names two different accounts. *)
C24_TransferBetweenDifferentAccounts ==
    \A tr \in transfers : tr.fromAccountId # tr.toAccountId

(* C25: when an import has failed and its restoration has failed too, the response
   does not say that the previous data has been restored, and it carries the
   restoration's error next to the import's error. *)
C25_BothFailuresReported ==
    (flight.op = "importFailed" /\ flight.rollback # "done") =>
        /\ flight.response.message # Restored
        /\ flight.response.restoreError # {}

(* C26: for every shop with a tenant and an allocation date not after now, and
   every month from the allocation month that has fully elapsed, a rent record of
   the shop's tenant, the shop and that month eventually exists. *)
C26_ElapsedPeriodEventuallyRecorded ==
    \A sid \in 1..MaxShops : \A p \in Periods :
        ( /\ sid \in DOMAIN shops
          /\ Allocated(shops[sid], now)
          /\ p \in ElapsedPeriods(shops[sid].allocated_at, now) )
          ~> ( /\ sid \in DOMAIN shops
               /\ ExistingRent(rentPayments, shops[sid].userId, shops[sid].tenantId,
                               sid, p[2], p[1]) # {} )

(* C27: no request of one user changes or deletes a row of another user: the other
   user's accounts with their balances, transactions, transfers, shops, buildings
   and rent records are the same after every step. *)
C27_OtherUsersDataUntouched ==
    [][ \A v \in Others : DataOf(v)' = DataOf(v) ]_vars

(* C28: with the sweep and upsertRentPayment running statement by statement in
   any interleaving, every (tenant, shop, month, year) has at most one record. *)
C28_InterleavingKeepsKeyUnique ==
    \A r \in rentPayments :
        Cardinality({ q \in rentPayments : KeyOf(q) = KeyOf(r) }) = 1

(* C29: when every rent record has pendingAmount = max(amount - paidAmount, 0) and
   status "paid" exactly when pendingAmount is 0, exporting the data and restoring
   that export leaves every row of every table with the id and the fields it had. *)
C29_ExportRestoreRoundTrip ==
    [][ ( /\ last'.op = "restoreExport" /\ last' # last
          /\ \A r \in rentPayments :
                /\ r.pendingAmount = Max(r.amount - r.paidAmount, 0)
                /\ (r.status = "paid") <=> (r.pendingAmount = 0) )
        => Database' = Database ]_vars

(* C30: an updateShop whose updates mention neither tenantId nor allocated_at
   leaves the shop's tenantId, allocated_at and isOccupied as they were and
   deletes and inserts no rent record. *)
C30_RentOnlyUpdateKeepsAllocation ==
    [][ last'.op = "updateShop" =>
          /\ shops'[last'.rid].tenantId = shops[last'.rid].tenantId
          /\ shops'[last'.rid].allocated_at = shops[last'.rid].allocated_at
          /\ shops'[last'.rid].isOccupied = shops[last'.rid].isOccupied
          /\ rentPayments' = rentPayments ]_vars

====
